---- MODULE Spec2Model ----
(***************************************************************************)
(* iCompressor: the archive-operation service (CompressorService) of       *)
(* src/services/compressor.ts, second (current) revision of the class,     *)
(* lines 333-685, with the two backends it drives seen through the events  *)
(* they deliver to the handlers the service registers.                     *)
(*                                                                         *)
(* One operation (compress, extract or test) is followed from its call to  *)
(* its settlement and beyond, so that signals arriving after settlement    *)
(* are part of the behaviour.  The next call starts a fresh operation.     *)
(***************************************************************************)
EXTENDS Integers, Sequences, FiniteSets, TLC

VARIABLES
    pc,             \* the operation's promise: idle (no call), running, resolved, rejected
    call,           \* the request of the current operation
    backend,        \* backend the operation started: none, archiver, 7z-add, 7z-extract, 7z-list
    result,         \* value the promise resolved with (NoResult before)
    events,         \* progress events delivered to onProgressHandler, in order
    outputFile,     \* the file at outputPath: absent, empty, nonempty
    spawned,        \* child processes spawned by the current operation
    isResolved,     \* completion latch of finish()
    lastPercent,    \* compressWithArchiver: last percentage broadcast
    totalBytes,     \* compressWithArchiver: progress denominator
    finalized,      \* compressWithArchiver: archive.finalize() was reached
    ticker,         \* interval timer: none, active (extract), timed (time-based variant), cleared
    targetPercent,  \* extract: interpolation target (in 1/Scale percent)
    currentPercent, \* extract: displayed value being eased (in 1/Scale percent)
    signals,        \* completion signals the backend has delivered so far
    nativeTicks,    \* native progress ticks (time-based variant: timer ticks) delivered so far
    thrown,         \* message of the exception the promise rejected with
    exec,           \* test: what execFile passed to its callback
    history,        \* HistoryService.entries, most recent first
    handled,        \* COMPRESS / EXTRACT / TEST invocations the main process has answered
    loaded,         \* HistoryService.loaded
    historyFile,    \* history.json in the user-data directory
    flows,          \* renderer: the click handlers in progress, each at its await
    screen,         \* renderer: which modals are visible, the last toast shown
    submitDisabled, \* renderer: btn-submit-password.disabled
    currentExtractArchive,  \* renderer: archive of the last Extract click
    timers,         \* renderer: setTimeout callbacks still to run
    endPending,     \* a failed extraction's stream has yet to signal 'end'
    registered,     \* renderer: listeners of the progress channel, in order of registration
    issued,         \* renderer: calls of api.onProgress so far
    unsubCalls,     \* renderer: calls of each function api.onProgress returned
    arg,            \* a function of the program taken alone: its argument
    value,          \* a function of the program taken alone: what it returned
    mainWindow,     \* main: createWindow has run
    pendingOpen,    \* main: the open-with intent held for the renderer
    rendererReady,  \* main: 'renderer:ready' has been received
    sent,           \* main: OPEN_WITH messages sent to the window, in order
    seen,           \* renderer: OPEN_WITH messages that have reached it
    intents,        \* open-with intents that have arrived so far
    activePanels    \* renderer: the panels that carry the class 'active'

\* the service (CompressorService and the backends it drives)
svcVars == <<pc, call, backend, result, events, outputFile, spawned, isResolved,
             lastPercent, totalBytes, finalized, ticker, targetPercent,
             currentPercent, signals, nativeTicks, thrown, exec>>

\* the main process around the service
mainVars == <<history, handled, loaded, historyFile>>

\* the renderer
uiVars == <<flows, screen, submitDisabled, currentExtractArchive, timers,
            endPending>>

\* the progress channel's listeners, and functions taken alone
\* the open-with path from the main process to the renderer's panels
openVars == <<mainWindow, pendingOpen, rendererReady, sent, seen, intents,
              activePanels>>

pageVars == <<registered, issued, unsubCalls, arg, value, openVars>>

\* what the service itself never touches
appVars == <<mainVars, uiVars, pageVars>>

vars == <<svcVars, appVars>>

----------------------------------------------------------------------------
(* Bounds of the exploration *)

MaxSources == 2      \* longest source list passed to compress
MaxNativeTicks == 2  \* native progress ticks a backend delivers in one operation
MaxFlows == 2        \* click handlers of the renderer in progress at once
MaxSubscriptions == 4   \* calls of api.onProgress in one run
MaxUnsubCalls == 2      \* calls of one returned unsubscribe function
MaxIntents == 3         \* open-with intents that arrive in one run

----------------------------------------------------------------------------
(* JavaScript values *)

Undef == "<undefined>"      \* the value undefined (an absent optional field)

Truthy(s) == s # Undef /\ s # ""

Min(a, b) == IF a < b THEN a ELSE b
Max(a, b) == IF a > b THEN a ELSE b

\* Math.round of the non-negative rational num/den: floor(num/den + 1/2)
RoundDiv(num, den) == (2 * num + den) \div (2 * den)

----------------------------------------------------------------------------
(* Paths: a path is the sequence of its characters *)

ToLowerChar(c) ==
    CASE c = "A" -> "a" [] c = "G" -> "g" [] c = "I" -> "i" [] c = "P" -> "p"
      [] c = "R" -> "r" [] c = "T" -> "t" [] c = "Z" -> "z"
      [] OTHER -> c

toLowerCase(s) == [i \in 1..Len(s) |-> ToLowerChar(s[i])]

endsWith(s, suffix) ==
    /\ Len(suffix) <= Len(s)
    /\ SubSeq(s, Len(s) - Len(suffix) + 1, Len(s)) = suffix

\* as getFormatFromPath, looking at the last extension only
getFormatFromPath_SingleSuffix(filePath) ==
    LET lower == toLowerCase(filePath) IN
    IF endsWith(lower, <<".", "t", "g", "z">>) THEN "targz"
    ELSE IF endsWith(lower, <<".", "7", "z">>) THEN "7z"
    ELSE IF endsWith(lower, <<".", "z", "i", "p">>) THEN "zip"
    ELSE IF endsWith(lower, <<".", "r", "a", "r">>) THEN "rar"
    ELSE IF endsWith(lower, <<".", "t", "a", "r">>) THEN "tar"
    ELSE ""

getFormatFromPath(filePath) ==
    LET lower == toLowerCase(filePath) IN
    IF endsWith(lower, <<".", "t", "a", "r", ".", "g", "z">>)
         \/ endsWith(lower, <<".", "t", "g", "z">>) THEN "targz"
    ELSE IF endsWith(lower, <<".", "7", "z">>) THEN "7z"
    ELSE IF endsWith(lower, <<".", "z", "i", "p">>) THEN "zip"
    ELSE IF endsWith(lower, <<".", "r", "a", "r">>) THEN "rar"
    ELSE IF endsWith(lower, <<".", "t", "a", "r">>) THEN "tar"
    ELSE ""

\* Archive paths offered to extract and test
ArchivePaths ==
    { <<"a", ".", "T", "g", "z">>,
      <<"a", ".", "g", "z">>,
      <<"g", "o", "n", "e", ".", "z", "i", "p">>,
      <<"g", "o", "n", "e", ".", "t", "x", "t">> }

\* fs.existsSync: the paths that exist on disk
existsSync(p) == p \in ArchivePaths /\ p[1] # "g"

----------------------------------------------------------------------------
(* Requests, results and progress events *)

UndefPath == <<Undef>>      \* an absent outputPath / outputDir field

OutputPath == <<"o", "u", "t">>     \* payload.outputPath of compress
OutputDir == <<"d", "i", "r">>      \* payload.outputDir of extract

Formats == {"zip", "7z", "tar", "targz", "rar"}     \* payload.format tokens
Passwords == {Undef, "", "pw"}                      \* payload.password

\* A source path and what the filesystem holds there: a file of `size` bytes,
\* a directory whose files have the sizes `children`, or nothing (stat fails).
File(n) == [kind |-> "file", size |-> n, children |-> <<>>]
Dir(c) == [kind |-> "dir", size |-> 0, children |-> c]
Missing == [kind |-> "missing", size |-> 0, children |-> <<>>]
SourcePool == {File(0), Dir(<<1, 2>>), Missing}
SourceLists == UNION {[1..n -> SourcePool] : n \in 0..MaxSources}

\* a click handler of the renderer that is not running
FlowIds == 1..MaxFlows
NoFlow == [handler |-> "none", at |-> "idle", archive |-> UndefPath,
           password |-> Undef, hasShownProgress |-> FALSE]

\* history.json: absent until the first save
NoIntent == [id |-> 0, filePath |-> <<>>, action |-> "none"]   \* pendingOpen = null

NoFile == [exists |-> FALSE, entries |-> <<>>]

NoCall == [op |-> "none", sources |-> <<>>, format |-> "", password |-> Undef,
           archivePath |-> <<>>]
NoExec == [error |-> Undef, stdout |-> <<>>, stderr |-> <<>>]
NoResult == [success |-> FALSE, output |-> UndefPath, error |-> "<pending>"]

Success(path) == [success |-> TRUE, output |-> path, error |-> Undef]
Failure(message) == [success |-> FALSE, output |-> UndefPath, error |-> message]

Event(percent, status) == [percent |-> percent, status |-> status]
StatusText(label, pct) == label \o "... " \o ToString(pct) \o "%"

\* CompressorService.progress: the handler is registered once at start-up
progress(percent, status) == events' = Append(events, Event(percent, status))

\* resolve() of the operation's promise: only the first settlement counts
resolve(r) ==
    IF pc = "running"
    THEN pc' = "resolved" /\ result' = r
    ELSE UNCHANGED <<pc, result>>

----------------------------------------------------------------------------
(* compress: validation and dispatch *)

\* as CompressValidation, without the rejection of a password for tar / targz
CompressValidation_NoTarCheck(sources, format, password) ==
    IF Len(sources) = 0 THEN "No sources selected" ELSE Undef

CompressValidation(sources, format, password) ==
    IF Len(sources) = 0 THEN "No sources selected"
    ELSE IF Truthy(password) /\ (format = "tar" \/ format = "targz")
    THEN "TAR/TAR.GZ formats do not support password encryption. Please use ZIP or 7Z."
    ELSE Undef

\* as selectBackend, sending every zip to the streaming backend
selectBackend_PasswordIgnored(format, password) ==
    IF format = "7z" THEN "7z-add" ELSE "archiver"

selectBackend(format, password) ==
    IF format = "7z" \/ (format = "zip" /\ Truthy(password))
    THEN "7z-add"
    ELSE "archiver"

RECURSIVE SumSeq(_)
SumSeq(s) == IF Len(s) = 0 THEN 0 ELSE Head(s) + SumSeq(Tail(s))

\* getSize: 0 when stat fails, the recursive sum for a directory
getSize(src) ==
    IF src.kind = "missing" THEN 0
    ELSE IF src.kind = "dir" THEN SumSeq(src.children)
    ELSE src.size

RECURSIVE SumSizes(_)
SumSizes(sources) ==
    IF Len(sources) = 0 THEN 0
    ELSE getSize(Head(sources)) + SumSizes(Tail(sources))

TotalBytes(sources) == Max(1, SumSizes(sources))

\* formats the archiver library has registered (after targz -> tar)
ArchiverRegistered(format) ==
    LET archiveFormat == IF format = "targz" THEN "tar" ELSE format
    IN  archiveFormat \in {"zip", "tar"}

\* sources.forEach: fs.statSync(src) throws on a path that cannot be stat-ed
StatThrows(sources) == \E i \in 1..Len(sources) : sources[i].kind = "missing"

\* entries handed to the archive before forEach ended or threw
RECURSIVE QueuedEntries(_)
QueuedEntries(sources) ==
    IF Len(sources) = 0 \/ Head(sources).kind = "missing" THEN 0
    ELSE 1 + QueuedEntries(Tail(sources))

ResetOperation ==
    /\ events' = <<>>
    /\ isResolved' = FALSE
    /\ lastPercent' = 0
    /\ totalBytes' = 1
    /\ finalized' = FALSE
    /\ ticker' = "none"
    /\ targetPercent' = 0
    /\ currentPercent' = 0
    /\ signals' = {}
    /\ nativeTicks' = 0
    /\ thrown' = Undef
    /\ exec' = NoExec

\* compress returns a validation failure
CompressRejected(message) ==
    /\ pc' = "resolved"
    /\ result' = Failure(message)
    /\ backend' = "none"
    /\ spawned' = 0
    /\ ResetOperation
    /\ UNCHANGED outputFile

\* compress7z up to the registration of its handlers
StartCompress7z ==
    /\ pc' = "running"
    /\ result' = NoResult
    /\ backend' = "7z-add"
    /\ spawned' = 1                             \* Seven.add
    /\ ResetOperation
    /\ UNCHANGED outputFile

\* compressWithArchiver: the executor of its promise, which runs synchronously
StartArchiver(sources, format) ==
    /\ result' = NoResult
    /\ events' = <<>>
    /\ spawned' = 0
    /\ isResolved' = FALSE
    /\ lastPercent' = 0
    /\ totalBytes' = TotalBytes(sources)
    /\ outputFile' = "empty"                \* fs.createWriteStream(outputPath)
    /\ ticker' = "none"
    /\ targetPercent' = 0
    /\ currentPercent' = 0
    /\ signals' = {}
    /\ nativeTicks' = 0
    /\ exec' = NoExec
    /\ IF ~ArchiverRegistered(format)
       THEN \* archiver(...) throws before any handler is registered
            /\ pc' = "rejected"
            /\ thrown' = "format not registered"
            /\ backend' = "none"
            /\ finalized' = FALSE
       ELSE IF StatThrows(sources)
       THEN \* statSync throws inside forEach: handlers stay registered
            /\ pc' = "rejected"
            /\ thrown' = "ENOENT: no such file or directory, stat"
            /\ backend' = "archiver"
            /\ finalized' = FALSE
       ELSE /\ pc' = "running"
            /\ thrown' = Undef
            /\ backend' = "archiver"
            /\ finalized' = TRUE

Compress(sources, format, password) ==
    /\ pc = "idle"
    /\ call' = [op |-> "compress", sources |-> sources, format |-> format,
                password |-> password, archivePath |-> <<>>]
    /\ LET message == CompressValidation(sources, format, password) IN
       IF message # Undef THEN CompressRejected(message)
       ELSE IF selectBackend(format, password) = "7z-add" THEN StartCompress7z
       ELSE StartArchiver(sources, format)
    /\ UNCHANGED appVars

----------------------------------------------------------------------------
(* compressWithArchiver: handlers *)

\* a native value that may be absent (`x || 0`, `x ?? 0`)
Native(n) == [defined |-> TRUE, n |-> n]
NativeAbsent == [defined |-> FALSE, n |-> 0]
NumberOr0(v) == IF v.defined THEN v.n ELSE 0

ProcessedBytes == {NativeAbsent, Native(1), Native(2), Native(6)}

\* as RawPct, without the cap at 99
RawPct_Uncapped(processed, total) == RoundDiv(processed * 100, total)

RawPct(processed, total) == Min(99, RoundDiv(processed * 100, total))

ArchiverFinish(success, error) ==
    IF isResolved THEN UNCHANGED <<isResolved, events, pc, result>>
    ELSE /\ isResolved' = TRUE
         /\ IF success
            THEN /\ progress(100, "Complete")
                 /\ resolve(Success(OutputPath))
            ELSE /\ progress(0, "")
                 /\ resolve(Failure(IF Truthy(error) THEN error ELSE "Unknown error"))

\* archive.on('progress')
ArchiveProgress(data) ==
    /\ backend = "archiver"
    /\ signals = {}
    /\ finalized \/ QueuedEntries(call.sources) > 0
    /\ nativeTicks < MaxNativeTicks
    /\ nativeTicks' = nativeTicks + 1
    /\ LET rawPct == RawPct(NumberOr0(data), totalBytes) IN
       IF rawPct > lastPercent
       THEN /\ lastPercent' = rawPct
            /\ progress(rawPct, StatusText("Compressing", rawPct))
       ELSE UNCHANGED <<lastPercent, events>>
    /\ UNCHANGED <<pc, call, backend, result, outputFile, spawned, isResolved,
                   totalBytes, finalized, ticker, targetPercent, currentPercent,
                   signals,
                   thrown, exec>>
    /\ UNCHANGED appVars

\* messages an Error object delivered by a backend can carry
ErrorMessages == {"", "backend failed"}

\* output.on('close'): the stream closes once the archive is finalized and
\* flushed, and also after it reported an error
OutputClose ==
    /\ backend = "archiver"
    /\ "close" \notin signals
    /\ (finalized /\ "archive-error" \notin signals) \/ "output-error" \in signals
    /\ signals' = signals \cup {"close"}
    /\ ArchiverFinish(TRUE, Undef)
    /\ outputFile' = IF "output-error" \in signals THEN outputFile ELSE "nonempty"
    /\ UNCHANGED <<call, backend, spawned, lastPercent, totalBytes, finalized,
                   ticker, targetPercent, currentPercent, nativeTicks,
                   thrown, exec>>
    /\ UNCHANGED appVars

\* archive.on('error')
ArchiveError(message) ==
    /\ backend = "archiver"
    /\ signals \cap {"archive-error", "close"} = {}
    /\ signals' = signals \cup {"archive-error"}
    /\ ArchiverFinish(FALSE, message)
    /\ UNCHANGED <<call, backend, outputFile, spawned, lastPercent, totalBytes,
                   finalized, ticker, targetPercent, currentPercent, nativeTicks,
                   thrown, exec>>
    /\ UNCHANGED appVars

\* output.on('error')
OutputError(message) ==
    /\ backend = "archiver"
    /\ signals \cap {"output-error", "close"} = {}
    /\ signals' = signals \cup {"output-error"}
    /\ ArchiverFinish(FALSE, message)
    /\ UNCHANGED <<call, backend, outputFile, spawned, lastPercent, totalBytes,
                   finalized, ticker, targetPercent, currentPercent, nativeTicks,
                   thrown, exec>>
    /\ UNCHANGED appVars

----------------------------------------------------------------------------
(* compress7z: handlers *)

\* percent values a node-7z progress tick can carry
NativePercents == {NativeAbsent, Native(50), Native(120)}

\* an Error delivered by a node-7z stream: the error of the child process
\* (no stderr field), or one built from the text the tool wrote to stderr,
\* whose message is the part of that text after "ERROR:"
Err(stderr, message) == [stderr |-> stderr, message |-> message]
StreamErrors ==
    { Err(Undef, "spawn 7za ENOENT"), Err("ERROR:", ""),
      Err("ERROR: Wrong password", "Wrong password") }

\* fs.existsSync(outputPath) && fs.statSync(outputPath).size > 0
OutputProduced == outputFile = "nonempty"

\* as Compress7zFinish, passing the tool's message on without a default
Compress7zFinish_NoFallback(success, error) ==
    IF isResolved THEN UNCHANGED <<isResolved, events, pc, result>>
    ELSE /\ isResolved' = TRUE
         /\ IF success \/ OutputProduced
            THEN /\ progress(100, "Complete")
                 /\ resolve(Success(OutputPath))
            ELSE /\ progress(0, "")
                 /\ resolve(Failure(error))

\* as Compress7zFinish, without the isResolved latch
Compress7zFinish_Unlatched(success, error) ==
    /\ isResolved' = TRUE
    /\ IF success \/ OutputProduced
       THEN /\ progress(100, "Complete")
            /\ IF pc = "running"
               THEN resolve(Success(OutputPath))
               ELSE pc' = pc /\ result' = Success(OutputPath)
       ELSE /\ progress(0, "")
            /\ resolve(Failure(IF Truthy(error) THEN error ELSE "Compression failed"))

Compress7zFinish(success, error) ==
    IF isResolved THEN UNCHANGED <<isResolved, events, pc, result>>
    ELSE /\ isResolved' = TRUE
         /\ IF success
            THEN /\ progress(100, "Complete")
                 /\ resolve(Success(OutputPath))
            ELSE IF OutputProduced
            THEN \* the file was produced: 7za sometimes warns on stderr
                 /\ progress(100, "Complete")
                 /\ resolve(Success(OutputPath))
            ELSE /\ progress(0, "")
                 /\ resolve(Failure(IF Truthy(error) THEN error ELSE "Compression failed"))

\* stream.on('progress') of Seven.add
SevenProgress(p) ==
    /\ backend = "7z-add"
    /\ signals = {}
    /\ nativeTicks < MaxNativeTicks
    /\ nativeTicks' = nativeTicks + 1
    /\ LET pct == Min(99, NumberOr0(p)) IN
       progress(pct, StatusText("Compressing", pct))
    /\ UNCHANGED <<pc, call, backend, result, outputFile, spawned, isResolved,
                   lastPercent, totalBytes, finalized, ticker, targetPercent,
                   currentPercent, signals,
                   thrown, exec>>
    /\ UNCHANGED appVars

\* the 7za child process writes the archive while it runs
ToolWritesOutput ==
    /\ backend = "7z-add"
    /\ signals = {}
    /\ outputFile # "nonempty"
    /\ outputFile' = "nonempty"
    /\ UNCHANGED <<pc, call, backend, result, events, spawned, isResolved,
                   lastPercent, totalBytes, finalized, ticker, targetPercent,
                   currentPercent, signals, nativeTicks,
                   thrown, exec>>
    /\ UNCHANGED appVars

\* stream.on('end') of Seven.add
SevenEnd ==
    /\ backend = "7z-add"
    /\ "end" \notin signals
    /\ signals' = signals \cup {"end"}
    /\ Compress7zFinish(TRUE, Undef)
    /\ UNCHANGED <<call, backend, outputFile, spawned, lastPercent, totalBytes,
                   finalized, ticker, targetPercent, currentPercent, nativeTicks,
                   thrown, exec>>
    /\ UNCHANGED appVars

\* stream.on('error') of Seven.add: the stream reports the error recorded for
\* the child process when that process closes, before it signals 'end'
SevenError(err) ==
    /\ backend = "7z-add"
    /\ signals = {}
    /\ signals' = signals \cup {"error"}
    /\ Compress7zFinish(FALSE, err.message)
    /\ UNCHANGED <<call, backend, outputFile, spawned, lastPercent, totalBytes,
                   finalized, ticker, targetPercent, currentPercent, nativeTicks,
                   thrown, exec>>
    /\ UNCHANGED appVars

----------------------------------------------------------------------------
(* extract *)

Scale == 1000       \* currentPercent and targetPercent count 1/Scale percent

\* Math.round of a value held in 1/Scale percent
Round(x) == (x + Scale \div 2) \div Scale

\* as Ease, without the cap at targetPercent
Ease_Uncapped(current, target) ==
    current + Max(Scale \div 2, ((target - current) * 3) \div 10)

\* currentPercent + Math.max(0.5, (targetPercent - currentPercent) * 0.3),
\* capped at targetPercent
Ease(current, target) ==
    Min(target, current + Max(Scale \div 2, ((target - current) * 3) \div 10))

\* as ExtractValidation, with the two checks in the other order
ExtractValidation_FormatFirst(archivePath) ==
    IF getFormatFromPath(archivePath) = "" THEN "Unsupported archive format"
    ELSE IF ~existsSync(archivePath) THEN "Archive not found"
    ELSE Undef

ExtractValidation(archivePath) ==
    IF ~existsSync(archivePath) THEN "Archive not found"
    ELSE IF getFormatFromPath(archivePath) = "" THEN "Unsupported archive format"
    ELSE Undef

Extract(archivePath, password) ==
    /\ pc = "idle"
    /\ call' = [op |-> "extract", sources |-> <<>>, format |-> "",
                password |-> password, archivePath |-> archivePath]
    /\ LET message == ExtractValidation(archivePath) IN
       IF message # Undef
       THEN /\ pc' = "resolved"
            /\ result' = Failure(message)
            /\ backend' = "none"
            /\ spawned' = 0
            /\ ResetOperation
       ELSE /\ pc' = "running"
            /\ result' = NoResult
            /\ backend' = "7z-extract"
            /\ spawned' = 1                     \* Seven.extractFull
            /\ targetPercent' = 1 * Scale
            /\ currentPercent' = 0
            /\ events' = <<Event(1, StatusText("Extracting", 1))>>
            /\ ticker' = "active"               \* setInterval
            /\ isResolved' = FALSE
            /\ lastPercent' = 0
            /\ totalBytes' = 1
            /\ finalized' = FALSE
            /\ signals' = {}
            /\ nativeTicks' = 0
            /\ thrown' = Undef
            /\ exec' = NoExec
    /\ UNCHANGED outputFile
    /\ UNCHANGED appVars

\* the setInterval callback
ExtractTick ==
    /\ ticker = "active"
    /\ IF currentPercent < targetPercent
       THEN /\ currentPercent' = Ease(currentPercent, targetPercent)
            /\ LET displayPct == Round(currentPercent') IN
               progress(displayPct, StatusText("Extracting", displayPct))
       ELSE UNCHANGED <<currentPercent, events>>
    /\ UNCHANGED <<pc, call, backend, result, outputFile, spawned, isResolved,
                   lastPercent, totalBytes, finalized, ticker, targetPercent,
                   signals, nativeTicks,
                   thrown, exec>>
    /\ UNCHANGED appVars

\* stream.on('progress') of Seven.extractFull
ExtractProgress(p) ==
    /\ backend = "7z-extract"
    /\ signals = {}
    /\ nativeTicks < MaxNativeTicks
    /\ nativeTicks' = nativeTicks + 1
    /\ LET pct == NumberOr0(p) * Scale IN
       targetPercent' = IF pct > targetPercent THEN Min(99 * Scale, pct)
                        ELSE targetPercent
    /\ UNCHANGED <<pc, call, backend, result, events, outputFile, spawned,
                   isResolved, lastPercent, totalBytes, finalized, ticker,
                   currentPercent, signals,
                   thrown, exec>>
    /\ UNCHANGED appVars

\* stream.on('end') of Seven.extractFull
ExtractEnd ==
    /\ backend = "7z-extract"
    /\ "end" \notin signals
    /\ signals' = signals \cup {"end"}
    /\ ticker' = "cleared"
    /\ progress(100, "Complete")
    /\ resolve(Success(OutputDir))
    /\ UNCHANGED <<call, backend, outputFile, spawned, isResolved, lastPercent,
                   totalBytes, finalized, targetPercent, currentPercent,
                   nativeTicks,
                   thrown, exec>>
    /\ UNCHANGED appVars

\* String(x) of a string or undefined
String(x) == IF x = Undef THEN "undefined" ELSE x

\* stream.on('error') of Seven.extractFull: delivered, like that of
\* Seven.add, before the stream's 'end'
ExtractError(err) ==
    /\ backend = "7z-extract"
    /\ signals = {}
    /\ signals' = signals \cup {"error"}
    /\ ticker' = "cleared"
    /\ progress(0, "")
    /\ LET detailedError == IF Truthy(err.stderr) THEN String(err.stderr)
                            ELSE String(err.message)
       IN  resolve(Failure(detailedError))
    /\ UNCHANGED <<call, backend, outputFile, spawned, isResolved, lastPercent,
                   totalBytes, finalized, targetPercent, currentPercent,
                   nativeTicks,
                   thrown, exec>>
    /\ UNCHANGED appVars

----------------------------------------------------------------------------
(* test *)

\* Output of the listing command: a text is the sequence of its phrases
LowerPhrase(ph) ==
    CASE ph = "Wrong password" -> "wrong password"
      [] ph = "WRONG PASSWORD" -> "wrong password"
      [] ph = "Cannot open encrypted archive" -> "cannot open encrypted archive"
      [] ph = "Data Error" -> "data error"
      [] ph = "Encrypted = +" -> "encrypted = +"
      [] ph = "Encrypted = -" -> "encrypted = -"
      [] ph = "Path = a" -> "path = a"
      [] OTHER -> ph

TextLower(t) == [i \in 1..Len(t) |-> LowerPhrase(t[i])]
includes(t, ph) == \E i \in 1..Len(t) : t[i] = ph

Stdouts ==
    { <<>>,
      <<"Path = a", "Encrypted = -">>,
      <<"Path = a", "Encrypted = +">>,
      <<"Path = a", "encrypted = +">>,
      <<"Cannot open encrypted archive", "Wrong password">> }
Stderrs ==
    { <<>>, <<"WRONG PASSWORD">>, <<"Data Error">>, <<"Path = a">> }

\* the error execFile passes to its callback: null (Undef) on exit code 0
ExecErrors == {Undef, "Command failed: 7za l -slt"}

\* as TestVerdict, asking for a password whenever the listing shows the flag
TestVerdict_FlagAlways(password, error, stdout, stderr) ==
    IF error # Undef
    THEN LET outStr == TextLower(stdout \o stderr) IN
         IF \/ includes(outStr, "wrong password")
            \/ includes(outStr, "cannot open encrypted archive")
            \/ includes(outStr, "data error")
         THEN Failure("Wrong password")
         ELSE Failure(error)
    ELSE IF includes(stdout, "Encrypted = +")
    THEN Failure("Password required")
    ELSE [success |-> TRUE, output |-> UndefPath, error |-> Undef]

TestVerdict(password, error, stdout, stderr) ==
    IF error # Undef
    THEN LET outStr == TextLower(stdout \o stderr) IN
         IF \/ includes(outStr, "wrong password")
            \/ includes(outStr, "cannot open encrypted archive")
            \/ includes(outStr, "data error")
         THEN Failure("Wrong password")
         ELSE Failure(error)
    ELSE IF ~Truthy(password) /\ includes(stdout, "Encrypted = +")
    THEN Failure("Password required")
    ELSE [success |-> TRUE, output |-> UndefPath, error |-> Undef]

\* as Test, with the archive unpacked to see whether it opens (7za x in place
\* of 7za l)
Test_ByExtracting(archivePath, password) ==
    /\ pc = "idle"
    /\ call' = [op |-> "test", sources |-> <<>>, format |-> "",
                password |-> password, archivePath |-> archivePath]
    /\ ResetOperation
    /\ IF ~existsSync(archivePath)
       THEN /\ pc' = "resolved"
            /\ result' = Failure("Archive not found")
            /\ backend' = "none"
            /\ spawned' = 0
            /\ UNCHANGED outputFile
       ELSE /\ pc' = "running"
            /\ result' = NoResult
            /\ backend' = "7z-list"
            /\ spawned' = 1
            /\ outputFile' = "nonempty"
    /\ UNCHANGED appVars

Test(archivePath, password) ==
    /\ pc = "idle"
    /\ call' = [op |-> "test", sources |-> <<>>, format |-> "",
                password |-> password, archivePath |-> archivePath]
    /\ ResetOperation
    /\ IF ~existsSync(archivePath)
       THEN /\ pc' = "resolved"
            /\ result' = Failure("Archive not found")
            /\ backend' = "none"
            /\ spawned' = 0
       ELSE /\ pc' = "running"
            /\ result' = NoResult
            /\ backend' = "7z-list"
            /\ spawned' = 1                     \* execFile(pathTo7z, args, ...)
    /\ UNCHANGED outputFile
    /\ UNCHANGED appVars

\* the execFile callback
TestCallback(error, stdout, stderr) ==
    /\ backend = "7z-list"
    /\ signals = {}
    /\ signals' = {"exit"}
    /\ exec' = [error |-> error, stdout |-> stdout, stderr |-> stderr]
    /\ resolve(TestVerdict(call.password, error, stdout, stderr))
    /\ UNCHANGED <<call, backend, events, outputFile, spawned, isResolved,
                   lastPercent, totalBytes, finalized, ticker, targetPercent,
                   currentPercent, nativeTicks, thrown>>
    /\ UNCHANGED appVars

----------------------------------------------------------------------------
(* The service *)

\* The caller has received the settled promise (the result, or the exception
\* it catches); the service is ready for the next call.
Release ==
    /\ pc \in {"resolved", "rejected"}
    /\ pc' = "idle"
    /\ call' = NoCall
    /\ backend' = "none"
    /\ result' = NoResult
    /\ spawned' = 0
    /\ ResetOperation
    /\ UNCHANGED outputFile

\* the service seen alone: whoever awaited the promise has its outcome
Return ==
    /\ Release
    /\ UNCHANGED appVars

Init ==
    /\ pc = "idle"
    /\ call = NoCall
    /\ backend = "none"
    /\ result = NoResult
    /\ events = <<>>
    /\ outputFile \in {"absent", "nonempty"}
    /\ thrown = Undef
    /\ exec = NoExec
    /\ spawned = 0
    /\ isResolved = FALSE
    /\ lastPercent = 0
    /\ totalBytes = 1
    /\ finalized = FALSE
    /\ ticker = "none"
    /\ targetPercent = 0
    /\ currentPercent = 0
    /\ signals = {}
    /\ nativeTicks = 0
    /\ history = <<>>
    /\ handled = 0
    /\ loaded = FALSE
    /\ historyFile = NoFile
    /\ flows = [f \in FlowIds |-> NoFlow]
    /\ screen = [progressModal |-> FALSE, passwordModal |-> FALSE,
                 passwordError |-> FALSE, toast |-> "none"]
    /\ submitDisabled = FALSE
    /\ currentExtractArchive = UndefPath
    /\ timers = {}
    /\ endPending = FALSE
    /\ registered = <<>>
    /\ issued = 0
    /\ unsubCalls = [h \in 1..MaxSubscriptions |-> 0]
    /\ arg = [fn |-> "none"]
    /\ value = [fn |-> "none"]
    /\ mainWindow = FALSE
    /\ pendingOpen = NoIntent
    /\ rendererReady = FALSE
    /\ sent = <<>>
    /\ seen = 0
    /\ intents = 0
    /\ activePanels = {"panel-compress"}

\* as Init, with nothing at the output location
CleanInit == Init /\ outputFile = "absent"

Next ==
    \/ \E sources \in SourceLists, format \in Formats, password \in Passwords :
          Compress(sources, format, password)
    \/ \E data \in ProcessedBytes : ArchiveProgress(data)
    \/ OutputClose
    \/ \E message \in ErrorMessages : ArchiveError(message)
    \/ \E message \in ErrorMessages : OutputError(message)
    \/ \E p \in NativePercents : SevenProgress(p)
    \/ ToolWritesOutput
    \/ SevenEnd
    \/ \E err \in StreamErrors : SevenError(err)
    \/ \E archivePath \in ArchivePaths, password \in Passwords :
          Extract(archivePath, password)
    \/ ExtractTick
    \/ \E p \in NativePercents : ExtractProgress(p)
    \/ ExtractEnd
    \/ \E err \in StreamErrors : ExtractError(err)
    \/ \E archivePath \in ArchivePaths, password \in Passwords :
          Test(archivePath, password)
    \/ \E error \in ExecErrors, stdout \in Stdouts, stderr \in Stderrs :
          TestCallback(error, stdout, stderr)
    \/ Return

Spec == Init /\ [][Next]_vars

----------------------------------------------------------------------------
(* The streaming backend with the time-based ticker (the other variant of  *)
(* compressWithArchiver in the source): an interval timer reports          *)
(* 95 * t / (t + 500 ms) every 400 ms until 'close' or 'error' clears it.  *)
(* The timer is taken to fire on time.  Followed together with extract.    *)

\* compressWithArchiver: the executor of its promise
TimedCompress(sources, format) ==
    /\ pc = "idle"
    /\ CompressValidation(sources, format, Undef) = Undef
    /\ selectBackend(format, Undef) = "archiver"
    /\ call' = [op |-> "compress", sources |-> sources, format |-> format,
                password |-> Undef, archivePath |-> <<>>]
    /\ result' = NoResult
    /\ events' = <<Event(1, StatusText("Compressing", 1))>>
    /\ ticker' = "timed"                    \* setInterval(..., 400)
    /\ outputFile' = "empty"                \* fs.createWriteStream(outputPath)
    /\ spawned' = 0
    /\ isResolved' = FALSE
    /\ lastPercent' = 0
    /\ totalBytes' = TotalBytes(sources)
    /\ targetPercent' = 0
    /\ currentPercent' = 0
    /\ signals' = {}
    /\ nativeTicks' = 0
    /\ exec' = NoExec
    /\ IF ~ArchiverRegistered(format)
       THEN \* archiver(...) throws before any handler is registered
            /\ pc' = "rejected"
            /\ thrown' = "format not registered"
            /\ backend' = "none"
            /\ finalized' = FALSE
       ELSE IF StatThrows(sources)
       THEN \* statSync throws inside forEach
            /\ pc' = "rejected"
            /\ thrown' = "ENOENT: no such file or directory, stat"
            /\ backend' = "archiver-timed"
            /\ finalized' = FALSE
       ELSE /\ pc' = "running"
            /\ thrown' = Undef
            /\ backend' = "archiver-timed"
            /\ finalized' = TRUE
    /\ UNCHANGED appVars

\* the setInterval callback; nativeTicks counts its runs
TimedTick ==
    /\ ticker = "timed"
    /\ nativeTicks < MaxNativeTicks
    /\ nativeTicks' = nativeTicks + 1
    /\ LET elapsed == 400 * (nativeTicks + 1)
           pct == Min(95, RoundDiv(95 * elapsed, elapsed + 500))
       IN  progress(pct, StatusText("Compressing", pct))
    /\ UNCHANGED <<pc, call, backend, result, outputFile, spawned, isResolved,
                   lastPercent, totalBytes, finalized, ticker, targetPercent,
                   currentPercent, signals, thrown, exec>>
    /\ UNCHANGED appVars

\* output.on('close')
TimedClose ==
    /\ backend = "archiver-timed"
    /\ finalized
    /\ signals = {}
    /\ signals' = {"close"}
    /\ ticker' = "cleared"
    /\ progress(100, "Complete")
    /\ resolve(Success(OutputPath))
    /\ outputFile' = "nonempty"
    /\ UNCHANGED <<call, backend, spawned, isResolved, lastPercent, totalBytes,
                   finalized, targetPercent, currentPercent, nativeTicks,
                   thrown, exec>>
    /\ UNCHANGED appVars

\* archive.on('error')
TimedArchiveError(message) ==
    /\ backend = "archiver-timed"
    /\ signals = {}
    /\ signals' = {"archive-error"}
    /\ ticker' = "cleared"
    /\ progress(0, "")
    /\ resolve(Failure(message))
    /\ UNCHANGED <<call, backend, outputFile, spawned, isResolved, lastPercent,
                   totalBytes, finalized, targetPercent, currentPercent,
                   nativeTicks, thrown, exec>>
    /\ UNCHANGED appVars

TimedNext ==
    \/ \E sources \in SourceLists, format \in Formats :
          TimedCompress(sources, format)
    \/ TimedTick
    \/ TimedClose
    \/ \E message \in ErrorMessages : TimedArchiveError(message)
    \/ \E archivePath \in ArchivePaths, password \in Passwords :
          Extract(archivePath, password)
    \/ ExtractTick
    \/ \E p \in NativePercents : ExtractProgress(p)
    \/ ExtractEnd
    \/ \E err \in StreamErrors : ExtractError(err)
    \/ Return

TimedSpec == Init /\ [][TimedNext]_vars

\* ---------------------------------------------------------------------
\* The time-based variant under fair delivery of the streams' signals
\* ---------------------------------------------------------------------
\* the output stream signals 'error' (the file cannot be opened or
\* written): this variant registers no handler for it, so nothing of the
\* operation runs, and the destroyed stream signals nothing further.  (A
\* stream that went on to signal 'close' would run TimedClose instead.)
TimedOutputError ==
    /\ backend = "archiver-timed"
    /\ pc = "running"
    /\ signals = {}
    /\ signals' = {"output-error"}
    /\ UNCHANGED <<pc, call, backend, result, events, outputFile, spawned,
                   isResolved, lastPercent, totalBytes, finalized, ticker,
                   targetPercent, currentPercent, nativeTicks, thrown, exec>>
    /\ UNCHANGED appVars

\* one of the signals that end a started archive
TimedSignal ==
    \/ TimedClose
    \/ \E message \in ErrorMessages : TimedArchiveError(message)
    \/ TimedOutputError

FairNext ==
    \/ \E sources \in SourceLists, format \in Formats :
          TimedCompress(sources, format)
    \/ TimedTick
    \/ TimedClose
    \/ \E message \in ErrorMessages : TimedArchiveError(message)
    \/ TimedOutputError
    \/ Return

\* every started archive eventually signals close or error
FairSpec == Init /\ [][FairNext]_vars /\ WF_vars(TimedSignal)

\* ---------------------------------------------------------------------
\* The compress and extract operations under native progress values of
\* every kind a backend's event object can carry: missing, in range, above
\* 100 and negative.
\* ---------------------------------------------------------------------
AnyNativePercents == NativePercents \cup {Native(-5)}

AnyProcessedBytes == ProcessedBytes \cup {Native(-1)}

RangeNext ==
    \/ \E sources \in SourceLists, format \in Formats, password \in Passwords :
          Compress(sources, format, password)
    \/ \E data \in AnyProcessedBytes : ArchiveProgress(data)
    \/ OutputClose
    \/ \E message \in ErrorMessages : ArchiveError(message)
    \/ \E message \in ErrorMessages : OutputError(message)
    \/ \E p \in AnyNativePercents : SevenProgress(p)
    \/ ToolWritesOutput
    \/ SevenEnd
    \/ \E err \in StreamErrors : SevenError(err)
    \/ \E archivePath \in ArchivePaths, password \in Passwords :
          Extract(archivePath, password)
    \/ ExtractTick
    \/ \E p \in AnyNativePercents : ExtractProgress(p)
    \/ ExtractEnd
    \/ \E err \in StreamErrors : ExtractError(err)
    \/ Return

RangeSpec == Init /\ [][RangeNext]_vars

\* ---------------------------------------------------------------------
\* compress7z when a non-empty file already exists at outputPath and 7za
\* writes nothing to it (it stops on its error before it replaces the file)
\* ---------------------------------------------------------------------
ExistingInit == Init /\ outputFile = "nonempty"

ExistingNext ==
    \/ \E sources \in SourceLists, password \in Passwords :
          Compress(sources, "7z", password)
    \/ \E p \in NativePercents : SevenProgress(p)
    \/ SevenEnd
    \/ \E err \in StreamErrors : SevenError(err)
    \/ Return

ExistingSpec == ExistingInit /\ [][ExistingNext]_vars

----------------------------------------------------------------------------
(* The IPC handlers of the main process, as far as the result goes *)

\* ipcMain.handle(COMPRESS / EXTRACT): the awaited result, or the failure
\* built from the exception caught
HandlerResult ==
    IF pc = "rejected" THEN Failure(IF thrown # Undef THEN thrown ELSE "Unknown error")
    ELSE result

----------------------------------------------------------------------------
(* The main process: the COMPRESS, EXTRACT and TEST handlers and the history *)

MAX_ENTRIES == 100      \* HistoryService: entries kept

MaxCalls == 2           \* invocations the main process answers in one run

HistoryEntry(type, sources, output, format, timestamp) ==
    [type |-> type, sources |-> sources, output |-> output, format |-> format,
     timestamp |-> timestamp]

\* HistoryService.load: the entries held once load() has run; the file is
\* read once in the life of the process, and holds what save() wrote
load(entries, isLoaded, file) ==
    IF ~isLoaded /\ file.exists THEN file.entries ELSE entries

\* HistoryService.save
save(entries) == [exists |-> TRUE, entries |-> entries]

\* as add, without the cap
add_Uncapped(entries, entry) == <<entry>> \o entries

\* HistoryService.add after its load(): unshift, then keep the first
\* MAX_ENTRIES
add(entries, entry) ==
    LET grown == <<entry>> \o entries IN
    IF Len(grown) > MAX_ENTRIES THEN SubSeq(grown, 1, MAX_ENTRIES) ELSE grown

\* HistoryService.add as a step: load, unshift and cap, save
HistoryAdded(entry) ==
    /\ history' = add(load(history, loaded, historyFile), entry)
    /\ loaded' = TRUE
    /\ historyFile' = save(history')

\* as Recorded, without looking at the result
Recorded_Always(c, r) == c.op \in {"compress", "extract"}

\* the conditions under which a handler calls history.add
Recorded(c, r) ==
    \/ c.op = "compress" /\ r.success /\ Len(c.sources) > 0
    \/ c.op = "extract" /\ r.success

\* the entry a handler builds from its payload; Date.now() is a logical clock
EntryOf(c, now) ==
    IF c.op = "compress"
    THEN HistoryEntry("compress", c.sources, OutputPath, c.format, now)
    ELSE HistoryEntry("extract", <<c.archivePath>>, OutputDir, "", now)

\* ipcMain.handle(COMPRESS) up to its await
IpcCompress(sources, format, password) ==
    /\ handled < MaxCalls
    /\ Compress(sources, format, password)

\* ipcMain.handle(EXTRACT) up to its await
IpcExtract(archivePath, password) ==
    /\ handled < MaxCalls
    /\ Extract(archivePath, password)

\* ipcMain.handle(TEST) up to its await
IpcTest(archivePath, password) ==
    /\ handled < MaxCalls
    /\ Test(archivePath, password)

\* a handler resumes with the settled promise: a rejection goes to its catch
\* block, a result is recorded when it is a success, and the reply is sent
IpcReply ==
    /\ Release
    /\ handled' = handled + 1
    /\ IF pc = "resolved" /\ Recorded(call, result)
       THEN HistoryAdded(EntryOf(call, handled))
       ELSE UNCHANGED <<history, loaded, historyFile>>
    /\ UNCHANGED <<uiVars, pageVars>>

\* payloads the renderer is followed with in this specification
MainSourceLists == { <<>>, <<File(0)>>, <<Missing>> }
MainFormats == {"zip", "7z"}
MainArchives == { <<"a", ".", "T", "g", "z">>, <<"g", "o", "n", "e", ".", "z", "i", "p">> }

MainNext ==
    \/ \E sources \in MainSourceLists, format \in MainFormats :
          IpcCompress(sources, format, Undef)
    \/ \E data \in ProcessedBytes : ArchiveProgress(data)
    \/ OutputClose
    \/ \E message \in ErrorMessages : ArchiveError(message)
    \/ \E message \in ErrorMessages : OutputError(message)
    \/ \E p \in NativePercents : SevenProgress(p)
    \/ ToolWritesOutput
    \/ SevenEnd
    \/ \E err \in StreamErrors : SevenError(err)
    \/ \E archivePath \in MainArchives : IpcExtract(archivePath, Undef)
    \/ ExtractTick
    \/ \E p \in NativePercents : ExtractProgress(p)
    \/ ExtractEnd
    \/ \E err \in StreamErrors : ExtractError(err)
    \/ \E archivePath \in MainArchives : IpcTest(archivePath, Undef)
    \/ \E error \in ExecErrors, stdout \in Stdouts, stderr \in Stderrs :
          TestCallback(error, stdout, stderr)
    \/ IpcReply

MainSpec == Init /\ [][MainNext]_vars

----------------------------------------------------------------------------
(* The history service on its own: the GET_HISTORY, ADD_HISTORY and        *)
(* CLEAR_HISTORY handlers call get, add and clear; the application may be  *)
(* closed and started again, which leaves history.json as it was saved.    *)
(* Writing the file is taken to succeed.                                    *)

MaxAdds == 102          \* entries added in one run

\* the entry of the n-th addition; its timestamp is a logical clock
NthEntry(n) ==
    HistoryEntry(IF n % 2 = 0 THEN "compress" ELSE "extract", <<>>, OutputPath,
                 IF n % 2 = 0 THEN "zip" ELSE "", n)

\* HistoryService.add
HistoryAdd ==
    /\ handled < MaxAdds
    /\ HistoryAdded(NthEntry(handled))
    /\ handled' = handled + 1
    /\ UNCHANGED <<svcVars, uiVars, pageVars>>

\* HistoryService.get: load, return a copy of the entries
HistoryGet ==
    /\ history' = load(history, loaded, historyFile)
    /\ loaded' = TRUE
    /\ UNCHANGED <<handled, historyFile>>
    /\ UNCHANGED <<svcVars, uiVars, pageVars>>

\* HistoryService.clear: no load, empty the entries, save
HistoryClear ==
    /\ history' = <<>>
    /\ historyFile' = save(history')
    /\ UNCHANGED <<handled, loaded>>
    /\ UNCHANGED <<svcVars, uiVars, pageVars>>

\* the application is closed and started again: a new HistoryService
Restart ==
    /\ loaded
    /\ history' = <<>>
    /\ loaded' = FALSE
    /\ UNCHANGED <<handled, historyFile>>
    /\ UNCHANGED <<svcVars, uiVars, pageVars>>

HistoryNext == HistoryAdd \/ HistoryGet \/ HistoryClear \/ Restart

HistorySpec == CleanInit /\ [][HistoryNext]_vars

MaxKept == 3            \* entries added in one run of the clear-then-get check

\* clear() and then get(), with nothing between them.  save() catches a
\* failed write of history.json and logs it, and the file stays as it was.
ClearThenGet(written) ==
    LET file == IF written THEN save(<<>>) ELSE historyFile
        got == load(<<>>, loaded, file)
    IN  /\ history' = got
        /\ loaded' = TRUE
        /\ historyFile' = file
        /\ arg' = [fn |-> "clear", written |-> written, loaded |-> loaded]
        /\ value' = [fn |-> "get", entries |-> got]
        /\ UNCHANGED handled
        /\ UNCHANGED <<registered, issued, unsubCalls, openVars>>
        /\ UNCHANGED <<svcVars, uiVars>>

\* HistoryService.add, a few times
AddSome ==
    /\ handled < MaxKept
    /\ HistoryAdd

UnsavedNext ==
    \/ AddSome
    \/ HistoryGet
    \/ HistoryClear
    \/ \E written \in BOOLEAN : ClearThenGet(written)
    \/ Restart

\* the history service when a write of clear() may fail
UnsavedSpec == CleanInit /\ [][UnsavedNext]_vars

----------------------------------------------------------------------------
(* Paths and formats: getFormatFromPath and isExtractable taken alone, and *)
(* the output path of a compression, from the name the Compress handler    *)
(* offers to the save dialog to the outputPath of the result.              *)

\* CompressorService.isExtractable
isExtractable(filePath) ==
    getFormatFromPath(filePath) \in {"zip", "7z", "rar", "tar", "targz"}

\* paths classified: a stem followed by an ending
ClassifyPaths ==
    LET Stems ==
          { <<>>,
            <<"a">>,
            <<"a", ".", "t", "a", "r">>,
            <<"a", ".", "z", "i", "p">>,
            <<"d", "/", "a">>,
            <<"t", "g", "z">> }
        Endings ==
          { <<>>,
            <<".", "z", "i", "p">>,
            <<".", "Z", "I", "P">>,
            <<".", "Z", "i", "p">>,
            <<".", "7", "z">>,
            <<".", "7", "Z">>,
            <<".", "r", "a", "r">>,
            <<".", "R", "A", "R">>,
            <<".", "t", "a", "r">>,
            <<".", "T", "A", "R">>,
            <<".", "t", "a", "r", ".", "g", "z">>,
            <<".", "T", "A", "R", ".", "G", "Z">>,
            <<".", "T", "a", "r", ".", "G", "z">>,
            <<".", "t", "g", "z">>,
            <<".", "T", "G", "Z">>,
            <<".", "g", "z">>,
            <<".", "t", "x", "t">>,
            <<"z", "i", "p">>,
            <<".", "z", "i", "p", "x">>,
            <<".", "z", "i", "p", ".", "b", "a", "k">>,
            <<".", "t", "a", "r", ".", "g">>,
            <<".", "t", "a", "r", ".", "g", "z", " ">> }
    IN  {stem \o ending : stem \in Stems, ending \in Endings}

\* filePath.split('.').slice(1).join('.') with the dot put back: the path
\* from its first dot on, or '' for a path without a dot
FromFirstDot(filePath) ==
    IF \A i \in 1..Len(filePath) : filePath[i] # "." THEN <<>>
    ELSE LET first == CHOOSE i \in 1..Len(filePath) :
                         /\ filePath[i] = "."
                         /\ \A j \in 1..(i - 1) : filePath[j] # "."
         IN  SubSeq(filePath, first, Len(filePath))

ARCHIVE_EXTENSIONS ==
    { <<".", "z", "i", "p">>, <<".", "7", "z">>, <<".", "r", "a", "r">>,
      <<".", "t", "a", "r">>, <<".", "g", "z">>, <<".", "t", "g", "z">> }

getActionForPath(filePath) ==
    LET ext == toLowerCase(FromFirstDot(filePath)) IN
    IF \/ endsWith(ext, <<".", "t", "a", "r", ".", "g", "z">>)
       \/ endsWith(ext, <<".", "t", "g", "z">>)
       \/ ext \in ARCHIVE_EXTENSIONS
    THEN "extract" ELSE "compress"

\* /\.(zip|7z|rar|tar|gz|tgz)$/i.test(path)
isArchive(path) ==
    \E ext \in ARCHIVE_EXTENSIONS : endsWith(toLowerCase(path), ext)

\* getFormatFromPath(p) and isExtractable(p) are called
Classify(p) ==
    /\ arg' = [fn |-> "getFormatFromPath", path |-> p]
    /\ value' = [fn |-> "getFormatFromPath", format |-> getFormatFromPath(p),
                 extractable |-> isExtractable(p)]
    /\ UNCHANGED <<registered, issued, unsubCalls, openVars>>
    /\ UNCHANGED <<svcVars, mainVars, uiVars>>

\* btn-compress click handler: ext (the format's name, 'tar.gz' for targz)
\* and defaultName
Ext(format) == IF format = "targz" THEN <<"t", "a", "r", ".", "g", "z">> ELSE
               IF format = "7z" THEN <<"7", "z">> ELSE
               IF format = "zip" THEN <<"z", "i", "p">> ELSE <<"t", "a", "r">>
DefaultName(customName, source, format) ==
    (IF customName # <<>> THEN customName ELSE source) \o <<".">> \o Ext(format)

\* the values of format-select
OutputFormats == {"zip", "7z", "tar", "targz"}
\* a compression that succeeds: the result carries payload.outputPath as
\* it is
Compressed(outputPath) ==
    [fn |-> "compress", success |-> TRUE, outputPath |-> outputPath]

\* btn-compress click, the save dialog confirmed with the name offered, and
\* the compression succeeding
AcceptDefault(format, customName, source) ==
    LET outputPath == DefaultName(customName, source, format) IN
    /\ arg' = [fn |-> "compress", format |-> format, offered |-> TRUE]
    /\ value' = Compressed(outputPath)
    /\ UNCHANGED <<registered, issued, unsubCalls, openVars>>
    /\ UNCHANGED <<svcVars, mainVars, uiVars>>

\* btn-compress click, the save dialog confirmed with another name, and the
\* compression succeeding
TypeName(format, typed) ==
    /\ arg' = [fn |-> "compress", format |-> format, offered |-> FALSE]
    /\ value' = Compressed(typed)
    /\ UNCHANGED <<registered, issued, unsubCalls, openVars>>
    /\ UNCHANGED <<svcVars, mainVars, uiVars>>

\* one path put to the renderer's archive filter (drop zone, browse Extract
\* button), to the main process's open-with classifier and to extract's
\* format classifier
Route(p) ==
    /\ arg' = [fn |-> "route", path |-> p]
    /\ value' = [fn |-> "route", isArchive |-> isArchive(p),
                 action |-> getActionForPath(p),
                 format |-> getFormatFromPath(p)]
    /\ UNCHANGED <<registered, issued, unsubCalls, openVars>>
    /\ UNCHANGED <<svcVars, mainVars, uiVars>>

\* the archive-name field is empty or holds a name, the first source is a
\* file, and the user may type a name of their own into the save dialog
PathNext ==
    \/ \E p \in ClassifyPaths : Classify(p)
    \/ \E p \in ClassifyPaths : Route(p)
    \/ \E format \in OutputFormats,
          customName \in { <<>>, <<"m", "y">>, <<"b", ".", "z", "i", "p">> },
          source \in { <<"d", "o", "c", ".", "t", "x", "t">>, <<"x", ".", "t", "a", "r">> } :
             AcceptDefault(format, customName, source)
    \/ \E format \in OutputFormats,
          typed \in { <<"o", "u", "t">>, <<"o", "u", "t", ".", "7", "z">>, <<"o", "u", "t", ".", "t", "a", "r", ".", "g", "z">> } :
             TypeName(format, typed)

PathSpec == CleanInit /\ [][PathNext]_vars

----------------------------------------------------------------------------
(* The archive viewer: the btn-view-archive click handler turns the files  *)
(* of a listing into currentViewerFiles.  The Map of the handler is the    *)
(* sequence of its values in insertion order; each value carries its key   *)
(* in its path field.  An entry's sizes play no part and are left out.     *)

MaxListing == 3         \* entries of one listing

\* f.path.replace(/\\/g, '/')
normalize(path) ==
    [i \in 1..Len(path) |-> IF path[i] = "\\" THEN "/" ELSE path[i]]

\* map.has(key)
mapHas(map, key) == \E i \in 1..Len(map) : map[i].path = key

\* as mapSet, for an array the entries are pushed to
mapSet_Push(map, entry) == Append(map, entry)

\* map.set(entry.path, entry): replaces the value of a key the map has
mapSet(map, entry) ==
    IF mapHas(map, entry.path)
    THEN [i \in 1..Len(map) |->
             IF map[i].path = entry.path THEN entry ELSE map[i]]
    ELSE Append(map, entry)

\* the loop over parts: the parent that ends before each '/' from position
\* k on is added, named by its last part, when the map does not have it
RECURSIVE AddParents(_, _, _, _)
AddParents(map, f, path, k) ==
    IF k > Len(path) THEN map
    ELSE LET currentParent == SubSeq(path, 1, k - 1)
             before == {j \in 1..(k - 1) : path[j] = "/"}
             start == IF before = {} THEN 1
                      ELSE (CHOOSE j \in before : \A h \in before : h <= j) + 1
             part == SubSeq(path, start, k - 1)
             next ==
                 IF path[k] = "/" /\ ~mapHas(map, currentParent)
                 THEN mapSet(map, [name |-> part,
                                   path |-> currentParent,
                                   isDirectory |-> TRUE,
                                   modified |-> f.modified])
                 ELSE map
         IN  AddParents(next, f, path, k + 1)

\* result.files.forEach(...), from the n-th file on
RECURSIVE ForEachFile(_, _, _)
ForEachFile(map, files, n) ==
    IF n > Len(files) THEN map
    ELSE LET f == files[n]
             normalizedPath == normalize(f.path)
             set == mapSet(map, [f EXCEPT !.path = normalizedPath])
         IN  ForEachFile(AddParents(set, f, normalizedPath, 1), files, n + 1)

\* the listings of up to n entries: directories and files, with '/' or '\'
\* as separator, a path listed twice
RECURSIVE Listings(_)
Listings(n) ==
    LET pool ==
            { [name |-> <<"a">>, path |-> <<"a">>,
               isDirectory |-> TRUE, modified |-> "m1"],
              [name |-> <<"b">>, path |-> <<"a", "/", "b">>,
               isDirectory |-> TRUE, modified |-> "m1"],
              [name |-> <<"c">>, path |-> <<"a", "/", "b", "/", "c">>,
               isDirectory |-> FALSE, modified |-> "m2"],
              [name |-> <<"b">>, path |-> <<"a", "\\", "b">>,
               isDirectory |-> TRUE, modified |-> "m2"],
              [name |-> <<"d">>, path |-> <<"d">>,
               isDirectory |-> FALSE, modified |-> "m1"],
              [name |-> <<"e">>, path |-> <<"a", "\\", "e">>,
               isDirectory |-> FALSE, modified |-> "m1"],
              [name |-> <<"a">>, path |-> <<"a">>,
               isDirectory |-> TRUE, modified |-> "m2"] }
    IN  IF n = 0 THEN {<<>>}
        ELSE LET shorter == Listings(n - 1)
             IN  shorter \cup {Append(files, f) : files \in shorter, f \in pool}

\* btn-view-archive click, the listing having succeeded with these files
ViewArchive(files) ==
    /\ arg.fn = "none"
    /\ arg' = [fn |-> "viewer", files |-> files]
    /\ value' = [fn |-> "viewer",
                 currentViewerFiles |-> ForEachFile(<<>>, files, 1)]
    /\ UNCHANGED <<registered, issued, unsubCalls, openVars>>
    /\ UNCHANGED <<svcVars, mainVars, uiVars>>

\* btn-close-viewer click: the viewer modal, which covers the page, is hidden
CloseViewer ==
    /\ arg.fn = "viewer"
    /\ arg' = [fn |-> "none"]
    /\ value' = [fn |-> "none"]
    /\ UNCHANGED <<registered, issued, unsubCalls, openVars>>
    /\ UNCHANGED <<svcVars, mainVars, uiVars>>

ViewerNext ==
    \/ \E files \in Listings(MaxListing) : ViewArchive(files)
    \/ CloseViewer

ViewerSpec == CleanInit /\ [][ViewerNext]_vars

----------------------------------------------------------------------------
(* The progress subscription of the preload script: api.onProgress wraps   *)
(* the callback in a new function, registers it on the progress channel    *)
(* and returns a function that removes it.  ipcRenderer is an EventEmitter: *)
(* removeListener removes the most recently added instance of the function *)
(* and does nothing when it is not registered.                              *)

\* as removeListener, removing every listener of the channel
removeListener_All(listeners, h) == <<>>

\* ipcRenderer.removeListener(PROGRESS_CHANNEL, handler)
removeListener(listeners, h) ==
    LET at == {i \in 1..Len(listeners) : listeners[i] = h} IN
    IF at = {} THEN listeners
    ELSE LET last == CHOOSE i \in at : \A j \in at : j <= i
         IN  SubSeq(listeners, 1, last - 1)
                \o SubSeq(listeners, last + 1, Len(listeners))

\* api.onProgress(callback): the handler of the n-th call is n
Subscribe ==
    /\ issued < MaxSubscriptions
    /\ issued' = issued + 1
    /\ registered' = Append(registered, issued + 1)
    /\ UNCHANGED <<unsubCalls, arg, value, openVars>>
    /\ UNCHANGED <<svcVars, mainVars, uiVars>>

\* the function returned for handler h is called
Unsubscribe(h) ==
    /\ h \in 1..issued
    /\ unsubCalls[h] < MaxUnsubCalls
    /\ unsubCalls' = [unsubCalls EXCEPT ![h] = @ + 1]
    /\ registered' = removeListener(registered, h)
    /\ UNCHANGED <<issued, arg, value, openVars>>
    /\ UNCHANGED <<svcVars, mainVars, uiVars>>

\* a progress event arrives on the channel: every registered handler runs
Deliver ==
    /\ value' = [fn |-> "deliver", to |-> registered]
    /\ UNCHANGED <<registered, issued, unsubCalls, arg, openVars>>
    /\ UNCHANGED <<svcVars, mainVars, uiVars>>

ListenerNext ==
    \/ Subscribe
    \/ \E h \in 1..MaxSubscriptions : Unsubscribe(h)
    \/ Deliver

ListenerSpec == CleanInit /\ [][ListenerNext]_vars

\* ---------------------------------------------------------------------
\* compress7z: the options handed to 7za (compressor.ts 512-543)
\* ---------------------------------------------------------------------
Digits == <<"0", "1", "2", "3", "4", "5", "6", "7", "8", "9">>

clampedLevel(level) == Min(9, Max(0, level))

Dictionary_TwoSizes(clamped) == IF clamped >= 7 THEN "-md=32m" ELSE "-md=4m"

\* the if / else-if chain that pushes one -md flag
Dictionary(clamped) ==
    IF clamped >= 9 THEN "-md=64m"
    ELSE IF clamped >= 7 THEN "-md=32m"
    ELSE IF clamped >= 5 THEN "-md=16m"
    ELSE "-md=4m"

rawFlags(level, password) ==
    LET clamped == clampedLevel(level)
        flags == << "-mx=" \o Digits[clamped + 1], "-m0=lzma2", "-ms=on",
                    Dictionary(clamped) >>
    IN  IF ~Truthy(password) THEN Append(flags, "-mf=BCJ") ELSE flags

\* compressOptions: $raw and the password field, set only for a truthy one
compressOptions(level, password) ==
    [ raw |-> rawFlags(level, password),
      password |-> IF Truthy(password) THEN password ELSE Undef ]

\* one call of compress7z up to Seven.add
SevenOptions(level, password) ==
    /\ arg' = [fn |-> "compress7z", level |-> level, password |-> password]
    /\ value' = [fn |-> "compress7z",
                 options |-> compressOptions(level, password)]
    /\ UNCHANGED <<registered, issued, unsubCalls, openVars>>
    /\ UNCHANGED <<svcVars, mainVars, uiVars>>

\* payload.level is a number: the settings slider gives 0..9, a caller of
\* the IPC channel may give any whole number
OptionsNext ==
    \E level \in -15..24, password \in Passwords : SevenOptions(level, password)

OptionsSpec == CleanInit /\ [][OptionsNext]_vars

\* ---------------------------------------------------------------------
\* Open-with: from the operating system's event to the renderer's panels
\* (part_001 14-25, 285-319; preload.ts 125-136; part_004 96-108, 773-783;
\* ui.ts 9-19)
\* ---------------------------------------------------------------------
\* the elements of class 'panel', by id
PanelElements ==
    { "panel-compress", "panel-extract", "panel-browse", "panel-history",
      "panel-settings", "panel-about" }

\* the data-panel attributes of the navigation items
NavPanels == {"compress", "extract", "browse", "history", "settings", "about"}

\* every panel loses 'active'; the element with id panel-<panelId>, if there
\* is one, gains it
showPanel(panelId) ==
    IF ("panel-" \o panelId) \in PanelElements THEN {"panel-" \o panelId}
    ELSE {}

\* paths the operating system hands over
OpenPaths == { <<"a", ".", "z", "i", "p">>, <<"d", "o", "c", "s">> }

Intent(filePath) ==
    [id |-> intents + 1, filePath |-> filePath,
     action |-> getActionForPath(filePath)]

\* app.on('open-file')
OpenFile(filePath) ==
    /\ intents < MaxIntents
    /\ intents' = intents + 1
    /\ IF mainWindow
       THEN /\ sent' = Append(sent, [intent |-> Intent(filePath),
                                     ready |-> rendererReady])
            /\ UNCHANGED pendingOpen
       ELSE /\ pendingOpen' = Intent(filePath)
            /\ UNCHANGED sent
    /\ UNCHANGED <<mainWindow, rendererReady, seen, activePanels>>
    /\ UNCHANGED <<registered, issued, unsubCalls, arg, value>>
    /\ UNCHANGED <<svcVars, mainVars, uiVars>>

\* app.whenReady().then: checkCliArgs() with the arguments left after the
\* filter, then createWindow()
WhenReady(args) ==
    /\ ~mainWindow
    /\ mainWindow' = TRUE
    /\ IF Len(args) > 0
       THEN /\ intents < MaxIntents
            /\ intents' = intents + 1
            /\ pendingOpen' = Intent(args[1])
       ELSE UNCHANGED <<intents, pendingOpen>>
    /\ UNCHANGED <<rendererReady, sent, seen, activePanels>>
    /\ UNCHANGED <<registered, issued, unsubCalls, arg, value>>
    /\ UNCHANGED <<svcVars, mainVars, uiVars>>

\* ipcMain.on('renderer:ready')
RendererReady ==
    /\ mainWindow
    /\ ~rendererReady
    /\ rendererReady' = TRUE
    /\ IF pendingOpen # NoIntent
       THEN /\ sent' = Append(sent, [intent |-> pendingOpen, ready |-> TRUE])
            /\ pendingOpen' = NoIntent
       ELSE UNCHANGED <<sent, pendingOpen>>
    /\ UNCHANGED <<mainWindow, seen, intents, activePanels>>
    /\ UNCHANGED <<registered, issued, unsubCalls, arg, value>>
    /\ UNCHANGED <<svcVars, mainVars, uiVars>>

\* the next OPEN_WITH message reaches the renderer: the handler given to
\* ipc.onOpenWith runs, unless the message was sent before the renderer
\* was ready to receive it
OnOpenWith ==
    /\ seen < Len(sent)
    /\ seen' = seen + 1
    /\ LET message == sent[seen + 1] IN
       IF ~message.ready THEN UNCHANGED activePanels
       ELSE IF message.intent.action = "compress"
       THEN activePanels' = showPanel("panel-compress")
       ELSE activePanels' = showPanel("panel-extract")
    /\ UNCHANGED <<mainWindow, pendingOpen, rendererReady, sent, intents>>
    /\ UNCHANGED <<registered, issued, unsubCalls, arg, value>>
    /\ UNCHANGED <<svcVars, mainVars, uiVars>>

\* click on a navigation item
NavClick(panelId) ==
    /\ rendererReady
    /\ activePanels' = showPanel(panelId)
    /\ UNCHANGED <<mainWindow, pendingOpen, rendererReady, sent, seen, intents>>
    /\ UNCHANGED <<registered, issued, unsubCalls, arg, value>>
    /\ UNCHANGED <<svcVars, mainVars, uiVars>>

OpenNext ==
    \/ \E filePath \in OpenPaths : OpenFile(filePath)
    \/ \E args \in {<<>>} \cup {<<filePath>> : filePath \in OpenPaths} :
          WhenReady(args)
    \/ RendererReady
    \/ OnOpenWith
    \/ \E panelId \in NavPanels : NavClick(panelId)

OpenSpec == CleanInit /\ [][OpenNext]_vars

----------------------------------------------------------------------------
(* The renderer: the Compress, Extract and password handlers                *)
(*                                                                          *)
(* A handler in progress (a flow) rests at one of its awaits: ipc.test,     *)
(* ipc.compress or ipc.extract.  Its progress listener is registered        *)
(* exactly while it awaits ipc.compress or ipc.extract.  The service has a  *)
(* single progress handler, the main process forwards every event to the    *)
(* window, and every listener registered there receives it.  An event and   *)
(* the reply that follows it reach the renderer in the order in which the   *)
(* main process sent them, so the step in which an operation settles        *)
(* includes the rest of the handler awaiting it.  The native file dialogs   *)
(* are modal and belong to the click's step.  While a modal of the page is  *)
(* visible the buttons of the panels behind it cannot be clicked.           *)

\* archives the Extract panel is followed with
UIArchives ==
    { <<"a", ".", "T", "g", "z">>, <<"g", "o", "n", "e", ".", "z", "i", "p">> }

\* what the password field holds when the prompt is submitted
PasswordInputs == {"", "pw"}

\* errors of the extraction stream
ExtractErrors ==
    StreamErrors \cup { Err("ERROR: Data Error", "Data Error"),
                        Err("ERROR: Can not open encrypted archive", "") }

\* ways a compress call ends: finish(true), finish(false), or a failure
\* returned (or an exception thrown) before any event
CompressOutcomes == {"complete", "reset", "quiet"}

\* message.toLowerCase().includes(needle), for the needles the renderer looks
\* for and the messages of this model
KeywordsIn(message) ==
    CASE message = "Wrong password" -> {"password"}
      [] message = "Password required" -> {"password"}
      [] message = "ERROR: Wrong password" -> {"password"}
      [] message = "ERROR: Data Error" -> {"data error"}
      [] message = "ERROR: Can not open encrypted archive" -> {"encrypt"}
      [] OTHER -> {}

\* as PasswordRelated, looking for the word 'password' only
PasswordRelated_PasswordOnly(message) == "password" \in KeywordsIn(message)

\* the test both handlers apply to the error text of a failed result
PasswordRelated(message) ==
    \/ "password" \in KeywordsIn(message)
    \/ "encrypt" \in KeywordsIn(message)
    \/ "data error" \in KeywordsIn(message)

\* ui.ts
showGlobalProgress(s) == [s EXCEPT !.progressModal = TRUE]
hideGlobalProgress(s) == [s EXCEPT !.progressModal = FALSE]
showToast(s, type) == [s EXCEPT !.toast = type]

showPasswordModal(s, showError) ==
    [s EXCEPT !.passwordModal = TRUE, !.passwordError = showError]
hidePasswordModal(s) ==
    [s EXCEPT !.passwordModal = FALSE, !.passwordError = FALSE]

\* the flows whose ipc.onProgress listener is registered
\* a flow whose ipc.extract call rejected has ended without removing its
\* listener (at = "rejected")
ListenersOf(fl) ==
    {f \in FlowIds : fl[f].at \in {"compress", "extract", "rejected"}}
Listeners == ListenersOf(flows)

\* one progress event reaches the window: every registered listener runs
AfterEvent(fl) ==
    [f \in FlowIds |->
        IF fl[f].at \in {"extract", "rejected"}
        THEN [fl[f] EXCEPT !.hasShownProgress = TRUE]
        ELSE fl[f]]

OnEvent(fl, s) ==
    LET swaps == \E f \in FlowIds :
                    /\ fl[f].at \in {"extract", "rejected"}
                    /\ ~fl[f].hasShownProgress
                    /\ Truthy(fl[f].password)
        s1 == IF swaps THEN hidePasswordModal(s) ELSE s
    IN  IF ListenersOf(fl) = {} THEN s ELSE showGlobalProgress(s1)

\* a new flow takes the lowest free place
FreeSlot(f) ==
    /\ flows[f].at = "idle"
    /\ \A g \in 1..(f - 1) : flows[g].at # "idle"

Blocked == screen.progressModal \/ screen.passwordModal

\* btn-compress click, up to await ipc.compress
ClickCompress(f) ==
    /\ FreeSlot(f)
    /\ ~Blocked
    /\ screen' = showGlobalProgress(screen)
    /\ flows' = [flows EXCEPT ![f] = [NoFlow EXCEPT !.handler = "compress",
                                                   !.at = "compress"]]
    /\ UNCHANGED <<submitDisabled, currentExtractArchive, timers, endPending>>
    /\ UNCHANGED <<svcVars, mainVars, pageVars>>

\* a progress event of a running compress operation
CompressProgress(f) ==
    /\ flows[f].at = "compress"
    /\ screen' = OnEvent(flows, screen)
    /\ flows' = AfterEvent(flows)
    /\ UNCHANGED <<submitDisabled, currentExtractArchive, timers, endPending>>
    /\ UNCHANGED <<svcVars, mainVars, pageVars>>

\* the compress operation settles, and btn-compress's handler runs to its end
CompressSettles(f, outcome) ==
    /\ flows[f].at = "compress"
    /\ LET fl1 == IF outcome = "quiet" THEN flows ELSE AfterEvent(flows)
           s1 == IF outcome = "quiet" THEN screen ELSE OnEvent(flows, screen)
       IN  /\ screen' = showToast(s1, IF outcome = "complete" THEN "success"
                                      ELSE "error")
           /\ flows' = [fl1 EXCEPT ![f] = NoFlow]
    /\ timers' = timers \cup {"hide"}
    /\ UNCHANGED <<submitDisabled, currentExtractArchive, endPending>>
    /\ UNCHANGED <<svcVars, mainVars, pageVars>>

\* setTimeout(() => hideGlobalProgress(), 500)
TimerHide ==
    /\ "hide" \in timers
    /\ timers' = timers \ {"hide"}
    /\ screen' = hideGlobalProgress(screen)
    /\ UNCHANGED <<flows, submitDisabled, currentExtractArchive, endPending>>
    /\ UNCHANGED <<svcVars, mainVars, pageVars>>

\* doExtract up to await ipc.extract, and the service's extract up to the
\* registration of its handlers
doExtract(f, handler, archivePath, password) ==
    LET fl1 == [flows EXCEPT ![f] = [handler |-> handler, at |-> "extract",
                                     archive |-> archivePath,
                                     password |-> password,
                                     hasShownProgress |-> FALSE]]
    IN  IF ExtractValidation(archivePath) = Undef
        THEN \* this.progress(1, ...)
             /\ flows' = AfterEvent(fl1)
             /\ screen' = OnEvent(fl1, screen)
        ELSE /\ flows' = fl1
             /\ screen' = screen

\* btn-extract click, up to await ipc.test
ClickExtract(f, archivePath) ==
    /\ FreeSlot(f)
    /\ ~Blocked
    /\ currentExtractArchive' = archivePath
    /\ flows' = [flows EXCEPT ![f] = [NoFlow EXCEPT !.handler = "extract",
                                                   !.at = "test",
                                                   !.archive = archivePath]]
    /\ UNCHANGED <<screen, submitDisabled, timers, endPending>>
    /\ UNCHANGED <<svcVars, mainVars, pageVars>>

\* what the listing command can make ipc.test(archivePath) answer
ExecAnswers ==
    { TestVerdict(Undef, error, stdout, stderr) :
        error \in ExecErrors, stdout \in Stdouts, stderr \in Stderrs }

\* what ipc.test(archivePath) can answer
TestResults(archivePath) ==
    IF ~existsSync(archivePath) THEN {Failure("Archive not found")}
    ELSE ExecAnswers

TestAnswers == UNION {TestResults(archivePath) : archivePath \in UIArchives}

\* the test returns, and btn-extract's handler goes on to its next await
TestReturns(f, testResult) ==
    /\ flows[f].at = "test"
    /\ testResult \in TestResults(flows[f].archive)
    /\ IF ~testResult.success /\ PasswordRelated(testResult.error)
       THEN /\ screen' = showPasswordModal(screen, FALSE)
            /\ flows' = [flows EXCEPT ![f] = NoFlow]
       ELSE doExtract(f, "extract", flows[f].archive, Undef)
    /\ UNCHANGED <<submitDisabled, currentExtractArchive, timers, endPending>>
    /\ UNCHANGED <<svcVars, mainVars, pageVars>>

\* btn-submit-password click, up to await ipc.extract
SubmitPassword(f, pwd) ==
    /\ FreeSlot(f)
    /\ screen.passwordModal
    /\ ~submitDisabled
    /\ currentExtractArchive # UndefPath
    /\ Truthy(pwd)
    /\ submitDisabled' = TRUE
    /\ doExtract(f, "submit", currentExtractArchive, pwd)
    /\ UNCHANGED <<currentExtractArchive, timers, endPending>>
    /\ UNCHANGED <<svcVars, mainVars, pageVars>>

\* btn-cancel-password click
CancelPassword ==
    /\ screen.passwordModal
    /\ screen' = hidePasswordModal(screen)
    /\ UNCHANGED <<flows, submitDisabled, currentExtractArchive, timers,
                   endPending>>
    /\ UNCHANGED <<svcVars, mainVars, pageVars>>

\* an event of the ticker of a running extraction
ExtractEvent(f) ==
    /\ flows[f].at = "extract"
    /\ ExtractValidation(flows[f].archive) = Undef
    /\ screen' = OnEvent(flows, screen)
    /\ flows' = AfterEvent(flows)
    /\ UNCHANGED <<submitDisabled, currentExtractArchive, timers, endPending>>
    /\ UNCHANGED <<svcVars, mainVars, pageVars>>

\* doExtract after await ipc.extract, for a failed result whose listener has
\* been removed: fl and s are the flows and the screen when the reply arrives
ExtractFailed(f, fl, s, message) ==
    /\ flows' = [fl EXCEPT ![f] = NoFlow]
    /\ screen' = IF PasswordRelated(message)
                 THEN showPasswordModal(hideGlobalProgress(s),
                                        Truthy(flows[f].password))
                 ELSE showToast(hidePasswordModal(hideGlobalProgress(s)),
                                "error")
    /\ submitDisabled' = IF flows[f].handler = "submit" THEN FALSE
                         ELSE submitDisabled

\* extract returns a validation failure, and doExtract runs to its end
ExtractRejected(f) ==
    /\ flows[f].at = "extract"
    /\ ExtractValidation(flows[f].archive) # Undef
    /\ ExtractFailed(f, flows, screen, ExtractValidation(flows[f].archive))
    /\ UNCHANGED <<currentExtractArchive, timers, endPending>>
    /\ UNCHANGED <<svcVars, mainVars, pageVars>>

\* (err as any).stderr || String(err.message)
DetailedError(err) ==
    IF Truthy(err.stderr) THEN String(err.stderr) ELSE String(err.message)

\* the extraction stream signals 'error', and doExtract runs to its end
ExtractFails(f, err) ==
    /\ flows[f].at = "extract"
    /\ ExtractValidation(flows[f].archive) = Undef
    /\ ExtractFailed(f, AfterEvent(flows), OnEvent(flows, screen),
                     DetailedError(err))
    /\ endPending' = TRUE
    /\ UNCHANGED <<currentExtractArchive, timers>>
    /\ UNCHANGED <<svcVars, mainVars, pageVars>>

\* the extraction stream signals 'end', and doExtract runs to its end
ExtractSucceeds(f) ==
    /\ flows[f].at = "extract"
    /\ ExtractValidation(flows[f].archive) = Undef
    /\ flows' = [AfterEvent(flows) EXCEPT ![f] = NoFlow]
    /\ screen' = showGlobalProgress(OnEvent(flows, screen))
    /\ timers' = timers \cup {"done"}
    /\ submitDisabled' = IF flows[f].handler = "submit" THEN FALSE
                         ELSE submitDisabled
    /\ UNCHANGED <<currentExtractArchive, endPending>>
    /\ UNCHANGED <<svcVars, mainVars, pageVars>>

\* the setTimeout callback of doExtract's success branch (350 ms)
TimerDone ==
    /\ "done" \in timers
    /\ timers' = timers \ {"done"}
    /\ screen' = showToast(hidePasswordModal(hideGlobalProgress(screen)),
                           "success")
    /\ UNCHANGED <<flows, submitDisabled, currentExtractArchive, endPending>>
    /\ UNCHANGED <<svcVars, mainVars, pageVars>>

\* 'end' of a stream that had signalled 'error': progress(100, 'Complete')
LateEnd ==
    /\ endPending
    /\ endPending' = FALSE
    /\ screen' = OnEvent(flows, screen)
    /\ flows' = AfterEvent(flows)
    /\ UNCHANGED <<submitDisabled, currentExtractArchive, timers>>
    /\ UNCHANGED <<svcVars, mainVars, pageVars>>

\* as DismissProgress, taking the button for a cancel button
DismissProgress_Cancels ==
    /\ screen.progressModal
    /\ screen' = showToast(hideGlobalProgress(screen), "dismissed")
    /\ flows' = [f \in FlowIds |->
                    IF flows[f].at \in {"compress", "extract"} THEN NoFlow
                    ELSE flows[f]]
    /\ UNCHANGED <<submitDisabled, currentExtractArchive, timers, endPending>>
    /\ UNCHANGED <<svcVars, mainVars, pageVars>>

\* btn-cancel-progress click
DismissProgress ==
    /\ screen.progressModal
    /\ screen' = showToast(hideGlobalProgress(screen), "dismissed")
    /\ UNCHANGED <<flows, submitDisabled, currentExtractArchive, timers,
                   endPending>>
    /\ UNCHANGED <<svcVars, mainVars, pageVars>>

UIInit == Init /\ outputFile = "absent"

UINext ==
    \/ \E f \in FlowIds : ClickCompress(f)
    \/ \E f \in FlowIds : CompressProgress(f)
    \/ \E f \in FlowIds, outcome \in CompressOutcomes : CompressSettles(f, outcome)
    \/ TimerHide
    \/ \E f \in FlowIds, archivePath \in UIArchives : ClickExtract(f, archivePath)
    \/ \E f \in FlowIds, testResult \in TestAnswers : TestReturns(f, testResult)
    \/ \E f \in FlowIds, pwd \in PasswordInputs : SubmitPassword(f, pwd)
    \/ CancelPassword
    \/ \E f \in FlowIds : ExtractEvent(f)
    \/ \E f \in FlowIds : ExtractRejected(f)
    \/ \E f \in FlowIds, err \in ExtractErrors : ExtractFails(f, err)
    \/ \E f \in FlowIds : ExtractSucceeds(f)
    \/ TimerDone
    \/ LateEnd
    \/ DismissProgress

UISpec == UIInit /\ [][UINext]_vars

\* ---------------------------------------------------------------------
\* The renderer flows when ipcRenderer.invoke can reject
\* ---------------------------------------------------------------------
\* await ipc.extract(...) throws inside doExtract: the statements after it
\* (operationDone = true, unsub(), and the caller's submitBtn.disabled =
\* false) are not reached
ExtractIpcRejects(f) ==
    /\ flows[f].at = "extract"
    /\ flows' = [flows EXCEPT ![f].at = "rejected"]
    /\ UNCHANGED <<screen, submitDisabled, currentExtractArchive, timers,
                   endPending>>
    /\ UNCHANGED <<svcVars, mainVars, pageVars>>

RejectNext ==
    \/ UINext
    \/ \E f \in FlowIds : ExtractIpcRejects(f)

RejectSpec == UIInit /\ [][RejectNext]_vars

----------------------------------------------------------------------------
(* Properties *)

IsComplete(e) == e.percent = 100 /\ e.status = "Complete"
IsReset(e) == e.percent = 0 /\ e.status = ""
IsTerminal(e) == IsComplete(e) \/ IsReset(e)

Settled == pc \in {"resolved", "rejected"}
IsTransfer == call.op \in {"compress", "extract"}

\* the operation ended before any backend was touched
FailedEarly ==
    /\ pc = "resolved"
    /\ ~result.success
    /\ Truthy(result.error)
    /\ backend = "none"
    /\ spawned = 0
    /\ events = <<>>

\* C1: within one compress or extract operation the percent values delivered
\* to the progress callback never decrease up to the terminal event (the
\* reset to 0 on failure excepted), whatever the native ticks are.
C1_NonDecreasingUntilTerminal ==
    \A i \in 1..(Len(events) - 1) :
        ((\A j \in 1..i : ~IsTerminal(events[j])) /\ ~IsReset(events[i + 1]))
            => events[i].percent <= events[i + 1].percent

\* C2: once the terminal progress event (100 'Complete', or 0 with an empty
\* status) has been emitted, no further progress event of the operation is
\* emitted.
C2_NoEventAfterTerminal ==
    \A i \in 1..(Len(events) - 1) : ~IsTerminal(events[i])

\* C3: a percent=100 event is emitted only if the operation's result has
\* success=true, and an operation whose result is a backend failure has the
\* reset event as its last progress event.
C3_TerminalEventMatchesResult ==
    IsTransfer =>
        /\ (\E i \in 1..Len(events) : events[i].percent = 100)
              => (pc = "resolved" /\ result.success)
        /\ (pc = "resolved" /\ ~result.success /\ backend # "none")
              => (Len(events) > 0 /\ IsReset(events[Len(events)]))

\* C4: every result returned to the caller of compress or extract is either
\* success=true with the output location and no error, or success=false with
\* a non-empty error and no output location.
WellFormed(r) ==
    \/ r.success /\ r.output # UndefPath /\ Len(r.output) > 0 /\ r.error = Undef
    \/ ~r.success /\ r.output = UndefPath /\ Truthy(r.error)

C5_NeverRejects == pc # "rejected"

\* C6: compress with non-empty sources, format tar or targz and a non-empty
\* password returns a failure without starting a backend: the output file is
\* neither created nor truncated, no child process is spawned and no progress
\* event is emitted, then or later in the operation.
TarWithPassword(c) ==
    /\ c.op = "compress"
    /\ Len(c.sources) > 0
    /\ c.format \in {"tar", "targz"}
    /\ Truthy(c.password)

C6_TarPasswordFailsFast ==
    /\ [](TarWithPassword(call) => FailedEarly)
    /\ [][TarWithPassword(call') => outputFile' = outputFile]_vars

C6_Witness == TarWithPassword(call) /\ pc = "resolved" /\ outputFile = "absent"

\* C7: compress with no sources, and extract of a path that does not exist or
\* whose suffix is not a recognized format, fail before any backend runs and
\* without a progress event; extract checks existence before the format.
C7_ValidationFailsEarly ==
    /\ (call.op = "compress" /\ Len(call.sources) = 0)
          => (FailedEarly /\ result.error = "No sources selected")
    /\ (call.op = "extract" /\ ~existsSync(call.archivePath))
          => (FailedEarly /\ result.error = "Archive not found")
    /\ (call.op = "extract" /\ existsSync(call.archivePath)
            /\ getFormatFromPath(call.archivePath) = "")
          => (FailedEarly /\ result.error = "Unsupported archive format")

C7_Witness ==
    /\ call.op = "extract"
    /\ call.archivePath = <<"g", "o", "n", "e", ".", "t", "x", "t">>
    /\ pc = "resolved"
    /\ result.error = "Archive not found"

\* C8: for every format and password compress accepts exactly one backend
\* runs: the streaming one iff the format is zip, tar or targz with no
\* non-empty password, the external one iff the format is 7z, or zip with a
\* non-empty password.
CompressFormats == {"zip", "7z", "tar", "targz"}

Accepted ==
    /\ call.op = "compress"
    /\ call.format \in CompressFormats
    /\ CompressValidation(call.sources, call.format, call.password) = Undef

StreamingRan == backend = "archiver" /\ outputFile # "absent"
ExternalRan == backend = "7z-add" /\ spawned = 1

C8_ExactlyOneBackend ==
    Accepted =>
        /\ StreamingRan # ExternalRan
        /\ StreamingRan <=> (call.format \in {"zip", "tar", "targz"} /\ ~Truthy(call.password))
        /\ ExternalRan <=> (call.format = "7z" \/ (call.format = "zip" /\ Truthy(call.password)))
        /\ StreamingRan => spawned = 0

C8_Witness ==
    /\ Accepted /\ call.format = "zip" /\ call.password = "pw"
    /\ ExternalRan /\ pc = "running"

\* C9: test answers 'Wrong password' only when a password was supplied; with
\* no password it never does, also when the listing command fails with a
\* password marker in its output.
C9_WrongPasswordOnlyWithPassword ==
    (call.op = "test" /\ pc = "resolved" /\ result.error = "Wrong password")
        => Truthy(call.password)

\* C10: when the listing command exits successfully, test without a password
\* fails with 'Password required' if the output reports the encrypted flag,
\* and succeeds if a password was supplied or no flag is reported.
ListingSucceeded == call.op = "test" /\ "exit" \in signals /\ exec.error = Undef
ReportsEncrypted == includes(exec.stdout, "Encrypted = +")

C10_EncryptedFlag ==
    ListingSucceeded =>
        /\ (~Truthy(call.password) /\ ReportsEncrypted)
              => result = Failure("Password required")
        /\ (Truthy(call.password) \/ ~ReportsEncrypted)
              => (result.success /\ result.error = Undef)

C10_Witness ==
    /\ ListingSucceeded /\ ReportsEncrypted
    /\ call.password = "pw"
    /\ result.success

\* C11: test changes nothing on the filesystem and emits no progress event:
\* whatever the archive, the password and the outcome, the file at the output
\* location is the same after every step of a test operation, and the
\* operation's event list stays empty.
C11_TestHasNoSideEffect ==
    /\ [](call.op = "test" => events = <<>>)
    /\ [][call'.op = "test" => outputFile' = outputFile]_vars

C11_Witness ==
    /\ call.op = "test" /\ pc = "resolved"
    /\ result = Failure("Wrong password")
    /\ outputFile = "nonempty"

\* C15: in the external compress backend, when the tool signals an error the
\* result is success with the 100% event iff a non-empty file exists at
\* outputPath, otherwise failure with the reset event and the tool's message
\* (the default text when the tool gave none); the completion signal that
\* follows changes neither the result nor the events.
C15_ErrorOutcome ==
    /\ [][\A err \in StreamErrors :
            SevenError(err) =>
                IF outputFile = "nonempty"
                THEN /\ result' = Success(OutputPath)
                     /\ IsComplete(events'[Len(events')])
                ELSE /\ result' = Failure(IF Truthy(err.message) THEN err.message
                                          ELSE "Compression failed")
                     /\ IsReset(events'[Len(events')])]_vars
    /\ [][(backend = "7z-add" /\ "error" \in signals /\ "end" \in signals')
            => (result' = result /\ events' = events)]_vars

C15_Witness ==
    /\ backend = "7z-add" /\ signals = {"error", "end"}
    /\ pc = "resolved" /\ ~result.success
    /\ IsReset(events[Len(events)])

\* C20: a compress or extract call whose result is success puts exactly one
\* entry, built from its payload, at the front of the history; a call whose
\* result is a failure or that threw, and every other step, leaves the history
\* as it was.
Answers == handled' = handled + 1

C20_HistoryFollowsSuccess ==
    [][IF Answers /\ IsTransfer /\ HandlerResult.success
       THEN /\ Len(history') = Min(MAX_ENTRIES, Len(history) + 1)
            /\ history'[1] = EntryOf(call, handled)
            /\ \A i \in 2..Len(history') : history'[i] = history[i - 1]
       ELSE history' = history]_vars

C20_Witness ==
    /\ handled = 2 /\ pc = "idle"
    /\ Len(history) = 1
    /\ history[1].type = "extract" /\ history[1].timestamp = 1

\* C12: in the Extract-button flow the progress modal is not visible while
\* the test is pending, extract is invoked for an archive only in the step in
\* which the test of that archive returns, a test that reports a
\* password-related failure ends the handler without an extract, and the
\* password handler invokes extract only with a non-empty password and for
\* an archive whose test is not still pending.
ClaimKeywords == {"password", "encrypt", "data error"}
Mentions(message) == KeywordsIn(message) \cap ClaimKeywords # {}
StartsExtract(f) == flows'[f].at = "extract" /\ flows[f].at # "extract"

C12_TestBeforeExtract ==
    [][\A f \in FlowIds :
          /\ flows'[f].at = "test" => ~screen'.progressModal
          /\ (StartsExtract(f) /\ flows'[f].handler = "extract")
                => (flows[f].at = "test" /\ flows[f].archive = flows'[f].archive)
          /\ \A r \in TestAnswers :
                (TestReturns(f, r) /\ ~r.success /\ Mentions(r.error))
                   => flows'[f].at = "idle"
          /\ (StartsExtract(f) /\ flows'[f].handler = "submit")
                => /\ Truthy(flows'[f].password)
                   /\ \A g \in FlowIds :
                         flows[g].at = "test"
                            => flows[g].archive # flows'[f].archive]_vars

\* C13: an extract attempt made with a submitted password that ends in a
\* password-related failure has not, before it failed, hidden the password
\* prompt and shown the progress modal.
C13_PromptKeptUntilSuccess ==
    [][\A f \in FlowIds, err \in ExtractErrors :
          (ExtractFails(f, err) /\ Truthy(flows[f].password)
              /\ Mentions(DetailedError(err)))
             => ~flows[f].hasShownProgress]_vars

\* C14: when extract fails with an error whose text contains 'password',
\* 'encrypt' or 'data error', the handler ends with the password prompt
\* visible, its error flag shown iff a password had been supplied, the
\* progress modal hidden and no error toast; after any other failure the
\* prompt and the progress modal are hidden and the error toast is shown.
Classified(f, message) ==
    /\ flows'[f] = NoFlow
    /\ ~screen'.progressModal
    /\ IF Mentions(message)
       THEN /\ screen'.passwordModal
            /\ screen'.passwordError = Truthy(flows[f].password)
            /\ screen'.toast = screen.toast
       ELSE /\ ~screen'.passwordModal
            /\ screen'.toast = "error"

C14_FailureClassification ==
    [][\A f \in FlowIds :
          /\ \A err \in ExtractErrors :
                ExtractFails(f, err) => Classified(f, DetailedError(err))
          /\ ExtractRejected(f)
                => Classified(f, ExtractValidation(flows[f].archive))]_vars

C14_Witness ==
    /\ \A f \in FlowIds : flows[f] = NoFlow
    /\ screen.passwordModal /\ screen.passwordError
    /\ ~screen.progressModal /\ ~submitDisabled
    /\ endPending

\* C16: at most one compress or extract operation is in flight at any time.
C16_OneOperationInFlight == Cardinality(Listeners) <= 1

\* C17: a progress event of an operation is delivered only to the listener
\* registered for that operation.
C17_EventsReachOwnListener ==
    [][\A f \in FlowIds :
          (CompressProgress(f) \/ ExtractEvent(f)) => Listeners \subseteq {f}]_vars

\* C18: dismissing the progress modal hides it and leaves every running
\* handler, its listener and every pending callback as they were; a running
\* operation can still settle, and when it does its terminal event reaches
\* its listener, its listener is removed and its result is shown (the toast,
\* or for a successful extraction the callback that shows it).
C18_DismissDoesNotStop ==
    /\ [][DismissProgress
            => /\ ~screen'.progressModal
               /\ flows' = flows /\ timers' = timers
               /\ endPending' = endPending
               /\ submitDisabled' = submitDisabled]_vars
    /\ [](\A f \in FlowIds :
            /\ flows[f].at = "compress"
                  => \A outcome \in CompressOutcomes :
                        ENABLED CompressSettles(f, outcome)
            /\ flows[f].at = "extract"
                  => ENABLED (ExtractSucceeds(f) \/ ExtractRejected(f)))
    /\ [][\A f \in FlowIds :
            /\ \A outcome \in CompressOutcomes :
                  CompressSettles(f, outcome)
                     => /\ f \notin Listeners'
                        /\ screen'.toast \in {"success", "error"}
                        /\ outcome # "quiet" => screen'.progressModal
            /\ ExtractSucceeds(f)
                  => /\ f \notin Listeners'
                     /\ screen'.progressModal
                     /\ "done" \in timers']_vars

C18_Witness ==
    /\ flows[1].at = "compress"
    /\ ~screen.progressModal
    /\ screen.toast = "dismissed"

\* C19: after a compress or extract operation fails its listener is removed,
\* the password-submit control is enabled if its handler had disabled it, and
\* nothing of the failed operation is left that would emit a progress event:
\* a later operation's listener receives no event of it.
Fails(f) ==
    \/ ExtractRejected(f)
    \/ \E err \in ExtractErrors : ExtractFails(f, err)
    \/ CompressSettles(f, "reset")
    \/ CompressSettles(f, "quiet")

C19_IdleAfterFailure ==
    /\ [][\A f \in FlowIds :
            Fails(f) => /\ f \notin Listeners'
                        /\ flows[f].handler = "submit" => ~submitDisabled']_vars
    /\ [][LateEnd => Listeners = {}]_vars

\* C21: the history never holds more than 100 entries and is ordered from
\* the most recent addition to the oldest; an add puts the new entry at the
\* front, keeps the entries held before in their order behind it, and when
\* 100 were held drops the last (oldest) one and no other.
Held == load(history, loaded, historyFile)

C21_HistoryBounded ==
    /\ [](/\ Len(Held) <= 100
          /\ \A i \in 1..(Len(Held) - 1) :
                Held[i].timestamp > Held[i + 1].timestamp)
    /\ [][HistoryAdd
            => /\ Held'[1] = NthEntry(handled)
               /\ Len(Held') = Min(Len(Held) + 1, 100)
               /\ \A i \in 2..Len(Held') : Held'[i] = Held[i - 1]]_vars

C21_Witness ==
    /\ Len(history) = MAX_ENTRIES
    /\ history[MAX_ENTRIES].timestamp = 2
    /\ history[1].timestamp = MAX_ENTRIES + 1

\* C22: the function api.onProgress returned can be called at any time and
\* any number of times; a call removes the listener registered by that
\* onProgress call if it is still registered, and leaves every other
\* listener registered, in the same order.
Without(listeners, h) == SelectSeq(listeners, LAMBDA x : x # h)

C22_UnsubscribeIsSafe ==
    /\ [][\A h \in 1..MaxSubscriptions :
            Unsubscribe(h) => registered' = Without(registered, h)]_vars
    /\ [](\A h \in 1..issued :
            unsubCalls[h] < MaxUnsubCalls => ENABLED Unsubscribe(h))

C22_Witness ==
    /\ issued = 3
    /\ unsubCalls[2] = 2
    /\ registered = <<1, 3>>
    /\ value.fn = "deliver" /\ value.to = <<1, 3>>

\* C23: the outputPath of a successful compression with format f, classified
\* by its suffix, gives f.
C23_OutputSuffixMatchesFormat ==
    (arg.fn = "compress" /\ value.success)
        => getFormatFromPath(value.outputPath) = arg.format

\* C24: getFormatFromPath, ignoring case, gives targz exactly for the paths
\* ending in .tar.gz or .tgz, gives 7z, zip, rar and tar for the paths ending
\* in .7z, .zip, .rar and .tar, and the empty format for every other path;
\* isExtractable holds exactly for the paths with a non-empty format.
EndsIn(p, suffix) == endsWith(toLowerCase(p), suffix)

C24_FormatFromPath ==
    arg.fn = "getFormatFromPath" =>
        LET p == arg.path
            single == { <<"7z", <<".", "7", "z">> >>,
                        <<"zip", <<".", "z", "i", "p">> >>,
                        <<"rar", <<".", "r", "a", "r">> >>,
                        <<"tar", <<".", "t", "a", "r">> >> }
            double == EndsIn(p, <<".", "t", "a", "r", ".", "g", "z">>)
                         \/ EndsIn(p, <<".", "t", "g", "z">>)
        IN  /\ (value.format = "targz") <=> double
            /\ \A pair \in single :
                  EndsIn(p, pair[2]) => value.format = pair[1]
            /\ (~double /\ \A pair \in single : ~EndsIn(p, pair[2]))
                  => value.format = ""
            /\ value.extractable <=> (value.format # "")

C24_Witness ==
    /\ arg.fn = "getFormatFromPath"
    /\ arg.path = <<"a", ".", "T", "a", "r", ".", "G", "z">>
    /\ value.format = "targz" /\ value.extractable

\* C25: in the entries the viewer holds after a listing, every '/' of an
\* entry's path ends the path of a directory entry, no two entries have the
\* same path, and every path the listing names holds the entry listed for it
\* (the last one, when the listing names it twice), in any order of listing.
Slashes(path) == {k \in 1..Len(path) : path[k] = "/"}

C25_ClosedUnderParents ==
    arg.fn = "viewer" =>
        LET held == value.currentViewerFiles
            files == arg.files
        IN  /\ \A i \in 1..Len(held) : \A k \in Slashes(held[i].path) :
                  \E j \in 1..Len(held) :
                     /\ held[j].path = SubSeq(held[i].path, 1, k - 1)
                     /\ held[j].isDirectory
            /\ \A i, j \in 1..Len(held) :
                  held[i].path = held[j].path => i = j
            /\ \A n \in 1..Len(files) :
                  LET same == {h \in 1..Len(files) :
                                 normalize(files[h].path) = normalize(files[n].path)}
                      last == CHOOSE h \in same : \A g \in same : g <= h
                  IN  \E j \in 1..Len(held) :
                         held[j] = [files[last] EXCEPT
                                       !.path = normalize(files[last].path)]

C25_Witness ==
    /\ arg.fn = "viewer"
    /\ Len(arg.files) = 2
    /\ arg.files[1].path = <<"a", "/", "b", "/", "c">>
    /\ arg.files[2].path = <<"a">> /\ arg.files[2].modified = "m1"
    /\ Len(value.currentViewerFiles) = 3
    /\ value.currentViewerFiles[2].path = <<"a">>
    /\ value.currentViewerFiles[2].modified = "m1"

\* C26: in the streaming backend the first of output 'close', archive 'error'
\* and output 'error' to arrive settles the call with the matching result
\* and emits the one terminal event; a signal that arrives later changes
\* neither the result nor the events.
ArchiverSignal ==
    \/ OutputClose
    \/ \E message \in ErrorMessages : ArchiveError(message) \/ OutputError(message)

C26_ResolvesOnce ==
    /\ [][(ArchiverSignal /\ signals = {})
            => /\ pc' = "resolved"
               /\ IF OutputClose
                  THEN /\ result' = Success(OutputPath)
                       /\ events' = Append(events, Event(100, "Complete"))
                  ELSE /\ ~result'.success
                       /\ events' = Append(events, Event(0, ""))]_vars
    /\ [][(ArchiverSignal /\ signals # {})
            => (pc' = pc /\ result' = result /\ events' = events)]_vars

\* C27: whenever a compress or extract operation has settled, no interval
\* timer it started is still active, and no timer callback runs after the
\* settlement.
C27_TimersCancelled ==
    /\ [](Settled => ticker \notin {"active", "timed"})
    /\ [][(TimedTick \/ ExtractTick) => ~Settled]_vars

\* C28: in extract's interpolated progress, the target is at most 99 and a
\* native tick never lowers it; the displayed value is at most the target
\* and never decreases; a timer tick emits one event and raises the
\* displayed value by max(0.5, 30% of the gap), capped at the target, when
\* the value is below the target, and otherwise does nothing.
Interpolating == backend = "7z-extract"

C28_Interpolation ==
    /\ [](Interpolating => /\ targetPercent <= 99 * Scale
                           /\ currentPercent <= targetPercent)
    /\ [][(Interpolating /\ \E p \in NativePercents : ExtractProgress(p))
            => targetPercent' >= targetPercent]_vars
    /\ [][(Interpolating /\ backend' = backend /\ call' = call)
            => currentPercent' >= currentPercent]_vars
    /\ [][ExtractTick =>
            LET gap == targetPercent - currentPercent
                step == IF 3 * gap >= 5 * Scale THEN (3 * gap) \div 10
                        ELSE Scale \div 2
                raised == IF currentPercent + step > targetPercent
                          THEN targetPercent ELSE currentPercent + step
            IN  IF gap > 0
                THEN /\ currentPercent' = raised
                     /\ Len(events') = Len(events) + 1
                ELSE /\ currentPercent' = currentPercent
                     /\ events' = events]_vars

C28_Witness ==
    /\ Interpolating /\ pc = "running"
    /\ nativeTicks = 2
    /\ targetPercent = 99 * Scale
    /\ currentPercent > 50 * Scale
    /\ currentPercent < targetPercent

\* C29: in the streaming backend the denominator totalBytes is the sum of the
\* sizes of the sources, an entry that cannot be stat-ed counting 0, and at
\* least 1; a progress tick computes min(99, round(100 * processedBytes /
\* totalBytes)) and emits it only when it is greater than the last
\* percentage emitted.
SizeOf(src) ==
    IF src.kind = "file" THEN src.size
    ELSE IF src.kind = "dir" THEN SumSeq(src.children)
    ELSE 0

RECURSIVE SizesFrom(_, _)
SizesFrom(sources, n) ==
    IF n > Len(sources) THEN 0 ELSE SizeOf(sources[n]) + SizesFrom(sources, n + 1)

LastEmitted == IF events = <<>> THEN 0 ELSE events[Len(events)].percent

C29_ByteProgress ==
    /\ [](backend = "archiver"
            => /\ totalBytes >= 1
               /\ totalBytes = IF SizesFrom(call.sources, 1) = 0 THEN 1
                               ELSE SizesFrom(call.sources, 1))
    /\ [][\A data \in ProcessedBytes :
            ArchiveProgress(data) =>
               LET processed == IF data.defined THEN data.n ELSE 0
                   rounded == (200 * processed + totalBytes) \div (2 * totalBytes)
                   pct == IF rounded > 99 THEN 99 ELSE rounded
               IN  IF pct > LastEmitted
                   THEN /\ Len(events') = Len(events) + 1
                        /\ events'[Len(events')].percent = pct
                   ELSE events' = events]_vars

C29_Witness ==
    /\ backend = "archiver" /\ pc = "running"
    /\ totalBytes = 3
    /\ Len(events) = 2
    /\ events[1].percent = 67
    /\ events[2].percent = 99


\* ---------------------------------------------------------------------
\* C30: every progress event's percent is a whole number from 0 to 100,
\* whatever native value the backend reported (missing, above 100 or
\* negative), and an event carries 100 only when a completion handler
\* reports success: it has the status "Complete" and is not appended by a
\* native progress handler or a timer tick.
\* ---------------------------------------------------------------------
NativeStep == nativeTicks' # nativeTicks \/ currentPercent' # currentPercent

C30_PercentInRange ==
    /\ [](\A i \in 1..Len(events) :
            /\ events[i].percent \in 0..100
            /\ events[i].percent = 100 => events[i].status = "Complete")
    /\ [][\A i \in 1..Len(events') :
            (i > Len(events) /\ NativeStep) => events'[i].percent # 100]_vars

\* ---------------------------------------------------------------------
\* C31: compress7z clamps the requested level to 0..9 and derives its
\* options from the clamped level and the password alone: -mx carries the
\* clamped level, exactly one dictionary flag is passed (64m for 9, 32m for
\* 7-8, 16m for 5-6, 4m for 0-4), and the BCJ filter flag is passed exactly
\* when no password is set.
\* ---------------------------------------------------------------------
DictionaryFlags == {"-md=64m", "-md=32m", "-md=16m", "-md=4m"}

FlagsOf(v) == {v.options.raw[i] : i \in 1..Len(v.options.raw)}

C31_SevenOptions ==
    arg.fn = "compress7z" =>
       LET lvl == IF arg.level < 0 THEN 0
                  ELSE IF arg.level > 9 THEN 9 ELSE arg.level
           raw == value.options.raw
           set == arg.password # Undef /\ arg.password # ""
       IN  /\ lvl \in 0..9
           /\ raw[1] = "-mx=" \o Digits[lvl + 1]
           /\ Cardinality({i \in 1..Len(raw) : raw[i] \in DictionaryFlags}) = 1
           /\ ("-md=64m" \in FlagsOf(value)) = (lvl = 9)
           /\ ("-md=32m" \in FlagsOf(value)) = (lvl \in 7..8)
           /\ ("-md=16m" \in FlagsOf(value)) = (lvl \in 5..6)
           /\ ("-md=4m" \in FlagsOf(value)) = (lvl \in 0..4)
           /\ ("-mf=BCJ" \in FlagsOf(value)) = ~set
           /\ Cardinality({i \in 1..Len(raw) : raw[i] = "-mf=BCJ"}) <= 1
           /\ value.options.password = (IF set THEN arg.password ELSE Undef)

C31_Witness ==
    /\ arg.fn = "compress7z" /\ arg.level = 12 /\ arg.password = "pw"
    /\ value.options.raw = <<"-mx=9", "-m0=lzma2", "-ms=on", "-md=64m">>

\* ---------------------------------------------------------------------
\* C32: a password submitted in the password prompt is used to extract the
\* archive (with its output directory, stored in the same two assignments)
\* for which the prompt was opened.  The submit handler extracts
\* currentExtractArchive, so: every step that opens the prompt -- a test or
\* an extraction of an archive ending in a password-related failure --
\* finds that archive in currentExtractArchive, the variable does not
\* change while the prompt stays open, and the submit handler extracts what
\* the variable holds.
\* ---------------------------------------------------------------------
PromptOpenedFor(f) ==
    \/ \E r \in TestAnswers :
          TestReturns(f, r) /\ ~r.success /\ Mentions(r.error)
    \/ \E err \in ExtractErrors :
          ExtractFails(f, err) /\ Mentions(DetailedError(err))

C32_PasswordGoesToPromptedArchive ==
    [][/\ \A f \in FlowIds :
             PromptOpenedFor(f) => currentExtractArchive' = flows[f].archive
       /\ (screen.passwordModal /\ screen'.passwordModal)
             => currentExtractArchive' = currentExtractArchive
       /\ \A f \in FlowIds, pwd \in PasswordInputs :
             SubmitPassword(f, pwd)
                => flows'[f].archive = currentExtractArchive]_vars

\* ---------------------------------------------------------------------
\* C33: the delayed clean-up scheduled when an operation finishes never
\* hides the progress modal of an operation started after that one
\* finished.  The timers are never cancelled and hide the modal whatever
\* it shows, so no handler run may begin with the progress modal shown
\* while a clean-up timer is still pending.
\* ---------------------------------------------------------------------
Begins(f) == flows[f].at = "idle" /\ flows'[f].at # "idle"

C33_CleanupSparesLaterOperation ==
    [][\A f \in FlowIds :
          (Begins(f) /\ timers # {})
             => (timers' = {} \/ ~screen'.progressModal)]_vars

\* ---------------------------------------------------------------------
\* C34: a compress or extract flow that has ended -- by success, by failure
\* or by a rejected IPC call -- has no progress listener left: whenever no
\* operation is in flight, no progress listener is registered.
\* ---------------------------------------------------------------------
InFlight == {f \in FlowIds : flows[f].at \in {"compress", "extract"}}

C34_NoListenerLeft == InFlight = {} => Cardinality(Listeners) = 0

\* ---------------------------------------------------------------------
\* C35: compress7z reports success after a tool error only if the non-empty
\* file at outputPath was written by this operation.  Where the file was
\* there before the call and the tool writes nothing, an operation whose
\* stream signals 'error' ends with a failure result and a 0 event.
\* ---------------------------------------------------------------------
C35_ExistingFileIsNotSuccess ==
    [][\A err \in StreamErrors :
          (SevenError(err) /\ pc = "running")
             => /\ ~result'.success
                /\ events'[Len(events')].percent = 0]_vars

\* ---------------------------------------------------------------------
\* C36: when every started stream eventually signals close / end or error,
\* every call eventually settles (and with it the UI flow that awaits it
\* can return to idle): a compress call that is running is eventually
\* resolved or rejected.
\* ---------------------------------------------------------------------
C36_EveryCallSettles == (pc = "running") ~> (pc \in {"resolved", "rejected"})

\* ---------------------------------------------------------------------
\* C37: every open-with intent is delivered to the renderer exactly once
\* and only after 'renderer:ready': no message is sent before the renderer
\* is ready, no intent is sent twice, and every intent that has arrived has
\* been sent or is still held for the renderer.
\* ---------------------------------------------------------------------
SentFor(id) == {i \in 1..Len(sent) : sent[i].intent.id = id}

C37_OpenWithDeliveredOnce ==
    /\ \A i \in 1..Len(sent) : sent[i].ready
    /\ \A id \in 1..intents :
          /\ Cardinality(SentFor(id)) <= 1
          /\ \/ Cardinality(SentFor(id)) = 1
             \/ ~rendererReady /\ pendingOpen.id = id

\* ---------------------------------------------------------------------
\* C38: exactly one panel is active after every navigation click and every
\* open-with event: each call of showPanel leaves active precisely the
\* panel it names.
\* ---------------------------------------------------------------------
C38_OnePanelActive ==
    /\ [](Cardinality(activePanels) = 1)
    /\ [][/\ \A panelId \in NavPanels :
                NavClick(panelId) => activePanels' = {"panel-" \o panelId}
          /\ (OnOpenWith /\ sent[seen + 1].ready)
                => activePanels' = {"panel-" \o sent[seen + 1].intent.action}]_vars

\* ---------------------------------------------------------------------
\* C39: the three archive-suffix predicates agree on every path: the UI
\* filter accepts a path, and the open-with classifier routes it to
\* 'extract', exactly when extract's format classifier recognizes it.
\* ---------------------------------------------------------------------
C39_SuffixPredicatesAgree ==
    arg.fn = "route" =>
       /\ value.isArchive <=> value.format # ""
       /\ value.action = "extract" <=> value.format # ""

\* ---------------------------------------------------------------------
\* C40: after clear() the next get() returns an empty list, whether or not
\* the history had been loaded before, whatever history.json held, and
\* even if the write in clear() failed.
\* ---------------------------------------------------------------------
C40_ClearedStaysEmpty == arg.fn = "clear" => value.entries = <<>>

====
